---- MODULE Spec2Model ----
(***************************************************************************)
(* Model of the suggestion / vote / pull-to-backlog workflow of the        *)
(* project-hub backend (src/src/routes/suggestions.routes.ts,              *)
(* src/src/routes/backlog.routes.ts, src/db/schema.sql).                   *)
(*                                                                         *)
(* The store is a PostgreSQL database used at its default isolation level  *)
(* (READ COMMITTED).  The variables suggestions, suggestion_votes and      *)
(* backlog_items hold the COMMITTED rows.  A handler that runs inside      *)
(* BEGIN ... COMMIT keeps its uncommitted writes in its own locals (they   *)
(* are invisible to every other session) and installs them in one step at  *)
(* COMMIT; its own statements read the committed rows overlaid with its    *)
(* own writes.  Row locks (SELECT ... FOR UPDATE, UPDATE, DELETE) are kept *)
(* in `locks`; a statement that needs a row locked by another session is   *)
(* not enabled until that session commits or rolls back, and then sees the *)
(* latest committed version of the row.  A statement issued through        *)
(* pool.query outside a transaction is its own transaction.                *)
(*                                                                         *)
(* Every request is one slot of `req`: Start is the arrival of the request *)
(* and its middleware chain, then one action per awaited SQL statement (an *)
(* admin handler runs up to its first await in the step of its arrival).   *)
(* Columns that no handler reads back (created_at, updated_at, priority)   *)
(* are left out.  Title, description and summary are small integers.       *)
(*                                                                         *)
(* The accounts are part of the store: users, user_developer_stacks and    *)
(* project_members are written by the admin routes (routes/admin.routes.ts *)
(* and routes/admin.memberships.routes.ts), and deleting a user cascades   *)
(* to the user's memberships, stacks and votes (schema.sql).  The token of *)
(* a request carries the user id and the role; it stays valid when the     *)
(* account is changed or deleted.                                          *)
(***************************************************************************)
EXTENDS Integers, FiniteSets, Sequences, TLC

VARIABLES
  suggestions,       \* table suggestions: id -> row
  suggestion_votes,  \* table suggestion_votes: id -> row
  backlog_items,     \* table backlog_items: id -> row
  nextSug,           \* the next fresh suggestions.id (ids are never reused)
  nextVote,          \* the next fresh suggestion_votes.id
  nextBacklog,       \* the next fresh backlog_items.id
  locks,             \* request -> the row locks its open transaction holds
  req,               \* request -> route, parameters, position and locals
  lastCast,          \* history: <<suggestion, voter>> -> the value of the voter's
                     \* latest committed cast ({} before the first one)
  backlog_tasks,     \* table backlog_tasks: id -> row
  nextTask,          \* the next fresh backlog_tasks.id
  users,             \* table users: the ids of its rows
  project_members,   \* table project_members: its rows <<project, user>>
  user_developer_stacks,  \* table user_developer_stacks: its rows <<user, stack code>>
  created,           \* the accounts POST /admin/users created: id -> users.role,
                     \* the role the tokens of the account carry
  nextUser           \* the id the next users row gets (uuid_generate_v4(): a
                     \* fresh id; ids are labels)

vars == <<suggestions, suggestion_votes, backlog_items, nextSug, nextVote,
          nextBacklog, locks, req, lastCast, backlog_tasks, nextTask,
          users, project_members, user_developer_stacks, created, nextUser>>

accounts == <<users, project_members, user_developer_stacks, created, nextUser>>

tasks == <<backlog_tasks, nextTask>>

ids == <<nextSug, nextVote, nextBacklog>>

tables == <<suggestions, suggestion_votes, backlog_items>>

\* Number of request slots: each slot carries one HTTP request.
MaxReq == 3

\* SQL NULL / an absent optional body field / "no response yet".
NULL == 0

Req == 1..MaxReq
Users == {1, 2}
Projects == {1, 2}
Votes == {-1, 0, 1}

\* users.role as carried by the JWT payload (req.auth.role): of the seeded
\* accounts user 1 is a developer, user 2 a plain user, user 3 an admin and
\* user 4 a manager; an account created later has the role of its creation.
RoleOf(u) == IF u \in DOMAIN created THEN created[u]
             ELSE CASE u = 1 -> "developer"
                    [] u = 3 -> "admin"
                    [] u = 4 -> "manager"
                    [] OTHER -> "user"

\* The accounts the database is seeded with.
InitialUsers == {1, 2, 3, 4}

\* Number of POST /admin/users requests in a run.
MaxCreated == 2

\* The ids the accounts created in a run can get: fresh ones, after those of
\* the seeded accounts and, in TaskInit, of one account created earlier.
NewUsers == 5..(5 + MaxCreated)

\* The holders of a token of a created account.
Created == DOMAIN created

\* The seeded project_members: everybody is a member of project 1; the
\* manager, the developer and the admin are members of project 2.
InitialMembers == {<<1, 1>>, <<1, 2>>, <<1, 3>>, <<1, 4>>,
                   <<2, 1>>, <<2, 3>>, <<2, 4>>}

\* The seeded user_developer_stacks: the developer has frontend and backend,
\* the admin all three, the user and the manager none.
InitialStacks == {<<1, "frontend">>, <<1, "backend">>,
                  <<3, "frontend">>, <<3, "backend">>, <<3, "infra">>}

\* projects.created_by_user_id: both projects were created by the admin.
ProjectCreator(p) == 3

\* The users that send edit and delete requests: the two of Users and the admin.
Editors == Users \cup {3}

\* The users that may cast a vote in a run.
Voters == Users \cup NewUsers

\* requireMembership(userId, projectId) of sql.ts: SELECT 1 FROM project_members
\* WHERE project_id = $1 AND user_id = $2 finds a row.
isMember(u, p) == <<p, u>> \in project_members

\* REFERENCES users(id): an INSERT of a row that names user u passes the
\* foreign-key check when the users row exists; otherwise the statement fails
\* (error 23503) and the request ends with 500.
UserExists(u) == u \in users

\* Mutant of requireRole: a route without the role middleware.
AnyRoleAllowed(allowed, u) == TRUE

\* requireRole(allowed)
requireRole(allowed, u) == RoleOf(u) \in allowed

----------------------------------------------------------------------------
(* Rows *)

\* INSERT INTO suggestions (project_id, created_by_user_id, title, description)
\* with the column defaults of schema.sql.
NewSuggestion(p, u, t, d) ==
  [project_id |-> p, created_by_user_id |-> u, title |-> t, description |-> d,
   status |-> "open", progress_percent |-> 0, score |-> 0,
   upvotes_count |-> 0, downvotes_count |-> 0,
   backlog_item_id |-> NULL, locked_at |-> NULL]

\* The row a SELECT ... WHERE project_id = p AND id = s returns; found = FALSE
\* stands for an empty result.
NoSug == [found |-> FALSE, created_by_user_id |-> NULL, title |-> NULL,
          description |-> NULL, backlog_item_id |-> NULL]

SuggestionInProject(p, s) ==
  s \in DOMAIN suggestions /\ suggestions[s].project_id = p

SelectSuggestion(p, s) ==
  IF SuggestionInProject(p, s)
  THEN [found |-> TRUE,
        created_by_user_id |-> suggestions[s].created_by_user_id,
        title |-> suggestions[s].title,
        description |-> suggestions[s].description,
        backlog_item_id |-> suggestions[s].backlog_item_id]
  ELSE NoSug

\* Row identifiers for row-level locks.
SugRow(s) == <<"suggestions", s, 0>>
VoteRow(s, u) == <<"suggestion_votes", s, u>>

\* A row lock can be taken when no other session holds it.
CanLock(r, row) == \A o \in Req \ {r} : row \notin locks[o]

\* The users row of u as the row a DELETE FROM users has taken: the statement
\* holds it until it has finished.
UserRowX(u) == <<"users", u, 1>>

\* A DELETE FROM users of another session holds the users row of u.  An INSERT
\* of a row that REFERENCES users(id) = u locks that row FOR KEY SHARE: it
\* waits until the DELETE has finished (and then finds the row or not).
UserRowHeld(r, u) == \E o \in Req \ {r} : UserRowX(u) \in locks[o]

\* A request slot before its request arrives.
IdleReq ==
  [op |-> "none", pc |-> "idle", userId |-> NULL, projectId |-> NULL,
   suggestionId |-> NULL, vote |-> 0, title |-> NULL, description |-> NULL,
   sug |-> NoSug, oldVote |-> 0, up |-> 0, down |-> 0, score |-> 0,
   backlog |-> NULL, status |-> NULL, targetUser |-> NULL, role |-> "",
   stacks |-> {},
   backlogItemId |-> NULL, taskId |-> NULL, stack |-> "", hasDone |-> FALSE,
   isDone |-> FALSE, total |-> 0, done |-> 0, progress |-> 0, link |-> NULL,
   task |-> [found |-> FALSE, id |-> NULL, stack |-> "", is_done |-> FALSE]]

\* res.status(code).json(...): the handler returns and its locals are gone; the
\* slot keeps the route and the status code of the answer.
Respond(r, code) == [IdleReq EXCEPT !.op = req[r].op, !.pc = "done", !.status = code]

\* now(): the timestamp columns only distinguish NULL from "stamped".
now == 1

\* A timestamp stored before the requests of a run arrived (now() of an
\* earlier request); timestamps are labels, only equality matters.
earlier == 2

----------------------------------------------------------------------------
(* Request arrival and the middleware chain *)

\* Number of requests whose handlers are running at the same time.
MaxInFlight == 2

\* Slots are interchangeable: they are used in order; a request arrives when
\* fewer than MaxInFlight handlers are running.
CanStart(r) ==
  /\ req[r].pc = "idle"
  /\ \A o \in Req : o < r => req[o].pc # "idle"
  /\ Cardinality({o \in Req : req[o].pc \notin {"idle", "done"}}) < MaxInFlight

\* authRequired (a valid token carrying userId and role), then
\* requireProjectMembership, then requireRole when the route has one:
\* 403 from either, otherwise the handler starts at statement `first`.
Admit(rq, allowed, first) ==
  IF ~isMember(rq.userId, rq.projectId) \/ ~requireRole(allowed, rq.userId)
  THEN [IdleReq EXCEPT !.op = rq.op, !.pc = "done", !.status = 403,
                       !.userId = rq.userId]
  ELSE [rq EXCEPT !.pc = first]

AnyRole == {"user", "manager", "developer", "admin"}

----------------------------------------------------------------------------
(* POST /projects/:projectId/suggestions *)

\* The body schema: title and description, both required.
CreateBodies == {[title |-> 1, description |-> 1]}

StartCreate(r) ==
  /\ CanStart(r)
  /\ \E u \in Users \cup Created, p \in Projects, b \in CreateBodies :
       req' = [req EXCEPT ![r] =
                 Admit([IdleReq EXCEPT !.op = "create", !.userId = u, !.projectId = p,
                                       !.title = b.title, !.description = b.description],
                       AnyRole, "c_insert")]
  /\ UNCHANGED <<tables, ids, locks, lastCast, accounts>>
  /\ UNCHANGED tasks

\* INSERT INTO suggestions (project_id, created_by_user_id, title, description)
\* ... RETURNING (autocommit); created_by_user_id REFERENCES users(id).
CreateInsert(r) ==
  /\ req[r].pc = "c_insert"
  /\ ~UserRowHeld(r, req[r].userId)
  /\ IF UserExists(req[r].userId)
     THEN /\ suggestions' = suggestions @@
                (nextSug :> NewSuggestion(req[r].projectId, req[r].userId,
                                          req[r].title, req[r].description))
          /\ nextSug' = nextSug + 1
          /\ req' = [req EXCEPT ![r] = Respond(r, 201)]
     ELSE /\ req' = [req EXCEPT ![r] = Respond(r, 500)]
          /\ UNCHANGED <<suggestions, nextSug>>
  /\ UNCHANGED <<suggestion_votes, backlog_items, nextVote, nextBacklog, locks, lastCast, accounts>>
  /\ UNCHANGED tasks

----------------------------------------------------------------------------
(* PATCH /projects/:projectId/suggestions/:suggestionId *)

\* COALESCE($1, column)
COALESCE(a, b) == IF a # NULL THEN a ELSE b

\* The body schema: title and description optional, at least one given.  The
\* edits tried give the new text 2 to the title, the description or both.
EditBodies == {b \in [title : {NULL, 2}, description : {NULL, 2}] :
                 b.title # NULL \/ b.description # NULL}

StartEdit(r) ==
  /\ CanStart(r)
  /\ \E u \in Editors \cup Created, p \in Projects, s \in 1..nextSug, b \in EditBodies :
       req' = [req EXCEPT ![r] =
                 Admit([IdleReq EXCEPT !.op = "edit", !.userId = u, !.projectId = p,
                                       !.suggestionId = s, !.title = b.title,
                                       !.description = b.description],
                       AnyRole, "e_check")]
  /\ UNCHANGED <<tables, ids, locks, lastCast, accounts>>
  /\ UNCHANGED tasks

\* res.status(403).json({ error: "Sem permissão" }): the slot also keeps the actor.
Forbidden(r) == [Respond(r, 403) EXCEPT !.userId = req[r].userId]

\* Mutant of OwnerCheck: the check without its author comparison.
OwnerCheckAnyActor(r, next) ==
  LET row == SelectSuggestion(req[r].projectId, req[r].suggestionId) IN
  IF ~row.found THEN Respond(r, 404)
  ELSE IF row.backlog_item_id # NULL THEN Respond(r, 409)
  ELSE [req[r] EXCEPT !.pc = next]

\* The author / not-promoted check shared by PATCH and DELETE (a plain SELECT).
OwnerCheck(r, next) ==
  LET row == SelectSuggestion(req[r].projectId, req[r].suggestionId) IN
  IF ~row.found THEN Respond(r, 404)
  ELSE IF row.created_by_user_id # req[r].userId THEN Forbidden(r)
  ELSE IF row.backlog_item_id # NULL THEN Respond(r, 409)
  ELSE [req[r] EXCEPT !.pc = next]

EditCheck(r) ==
  /\ req[r].pc = "e_check"
  /\ req' = [req EXCEPT ![r] = OwnerCheck(r, "e_update")]
  /\ UNCHANGED <<tables, ids, locks, lastCast, accounts>>
  /\ UNCHANGED tasks

\* Mutant of EditUpdate: the UPDATE also stores a progress_percent.
EditUpdateWithProgress(r) ==
  LET p == req[r].projectId
      s == req[r].suggestionId IN
  /\ req[r].pc = "e_update"
  /\ CanLock(r, SugRow(s))
  /\ suggestions' =
       IF SuggestionInProject(p, s)
       THEN [suggestions EXCEPT ![s].title = COALESCE(req[r].title, @),
                                ![s].description = COALESCE(req[r].description, @),
                                ![s].progress_percent = 100]
       ELSE suggestions
  /\ req' = [req EXCEPT ![r] = Respond(r, 200)]
  /\ UNCHANGED <<suggestion_votes, backlog_items, ids, locks, lastCast, accounts>>
  /\ UNCHANGED tasks

\* UPDATE suggestions SET title = COALESCE($1, title), description = ...
\* WHERE project_id = $3 AND id = $4 (its own transaction: waits for the row lock).
EditUpdate(r) ==
  LET p == req[r].projectId
      s == req[r].suggestionId IN
  /\ req[r].pc = "e_update"
  /\ CanLock(r, SugRow(s))
  /\ suggestions' =
       IF SuggestionInProject(p, s)
       THEN [suggestions EXCEPT ![s].title = COALESCE(req[r].title, @),
                                ![s].description = COALESCE(req[r].description, @)]
       ELSE suggestions
  /\ req' = [req EXCEPT ![r] = Respond(r, 200)]
  /\ UNCHANGED <<suggestion_votes, backlog_items, ids, locks, lastCast, accounts>>
  /\ UNCHANGED tasks

----------------------------------------------------------------------------
(* DELETE /projects/:projectId/suggestions/:suggestionId *)

StartDelete(r) ==
  /\ CanStart(r)
  /\ \E u \in Editors \cup Created, p \in Projects, s \in 1..nextSug :
       req' = [req EXCEPT ![r] =
                 Admit([IdleReq EXCEPT !.op = "delete", !.userId = u, !.projectId = p,
                                       !.suggestionId = s],
                       AnyRole, "d_check")]
  /\ UNCHANGED <<tables, ids, locks, lastCast, accounts>>
  /\ UNCHANGED tasks

DeleteCheck(r) ==
  /\ req[r].pc = "d_check"
  /\ req' = [req EXCEPT ![r] = OwnerCheck(r, "d_delete")]
  /\ UNCHANGED <<tables, ids, locks, lastCast, accounts>>
  /\ UNCHANGED tasks

\* The function f without the key k.
Without(f, k) == [x \in DOMAIN f \ {k} |-> f[x]]

\* DELETE FROM suggestions WHERE project_id = $1 AND id = $2, with the foreign
\* keys of schema.sql: suggestion_votes.suggestion_id ON DELETE CASCADE and
\* backlog_items.suggestion_id ON DELETE SET NULL.
DeleteExec(r) ==
  LET p == req[r].projectId
      s == req[r].suggestionId IN
  /\ req[r].pc = "d_delete"
  /\ CanLock(r, SugRow(s))
  /\ IF SuggestionInProject(p, s)
     THEN /\ suggestions' = Without(suggestions, s)
          /\ suggestion_votes' =
               [i \in {j \in DOMAIN suggestion_votes : suggestion_votes[j].suggestion_id # s}
                  |-> suggestion_votes[i]]
          /\ backlog_items' =
               [b \in DOMAIN backlog_items |->
                  IF backlog_items[b].suggestion_id = s
                  THEN [backlog_items[b] EXCEPT !.suggestion_id = NULL]
                  ELSE backlog_items[b]]
     ELSE UNCHANGED tables
  /\ req' = [req EXCEPT ![r] = Respond(r, 200)]
  /\ UNCHANGED <<ids, locks, lastCast, accounts>>
  /\ UNCHANGED tasks

----------------------------------------------------------------------------
(* PUT /projects/:projectId/suggestions/:suggestionId/vote *)

StartVote(r) ==
  /\ CanStart(r)
  /\ \E u \in Users \cup Created, p \in Projects, s \in 1..nextSug, v \in Votes :
       req' = [req EXCEPT ![r] =
                 Admit([IdleReq EXCEPT !.op = "vote", !.userId = u, !.projectId = p,
                                       !.suggestionId = s, !.vote = v],
                       AnyRole, "v_select")]
  /\ UNCHANGED <<tables, ids, locks, lastCast, accounts>>
  /\ UNCHANGED tasks

\* Mutant of VoteSelectSuggestion: the handler without its
\* "if (!sRes.rows[0]) ... 404" early return.
VoteSelectNoCheck(r) ==
  LET s == req[r].suggestionId IN
  /\ req[r].pc = "v_select"
  /\ CanLock(r, SugRow(s))
  /\ locks' = [locks EXCEPT ![r] = @ \cup {SugRow(s)}]
  /\ req' = [req EXCEPT ![r].pc = "v_old"]
  /\ UNCHANGED <<tables, ids, lastCast, accounts>>
  /\ UNCHANGED tasks

\* BEGIN; SELECT ... FROM suggestions WHERE project_id = $1 AND id = $2 FOR UPDATE.
\* No row: ROLLBACK and 404.  Otherwise the row stays locked until COMMIT.
VoteSelectSuggestion(r) ==
  LET p == req[r].projectId
      s == req[r].suggestionId IN
  /\ req[r].pc = "v_select"
  /\ IF SuggestionInProject(p, s)
     THEN /\ CanLock(r, SugRow(s))
          /\ locks' = [locks EXCEPT ![r] = @ \cup {SugRow(s)}]
          /\ req' = [req EXCEPT ![r].pc = "v_old"]
     ELSE /\ req' = [req EXCEPT ![r] = Respond(r, 404)]
          /\ UNCHANGED locks
  /\ UNCHANGED <<tables, ids, lastCast, accounts>>
  /\ UNCHANGED tasks

\* The ids of the rows of suggestion_votes with the key (project, suggestion, voter).
VoteRowsOf(votes, p, s, u) ==
  {i \in DOMAIN votes : /\ votes[i].project_id = p
                        /\ votes[i].suggestion_id = s
                        /\ votes[i].user_id = u}

\* Mutant of VoteSelectOld: the previous vote is never read (old_vote is 0).
VoteSelectOldDefault(r) ==
  LET s == req[r].suggestionId
      u == req[r].userId
      rows == VoteRowsOf(suggestion_votes, req[r].projectId, s, u) IN
  /\ req[r].pc = "v_old"
  /\ rows # {} => CanLock(r, VoteRow(s, u))
  /\ locks' = [locks EXCEPT ![r] = IF rows # {} THEN @ \cup {VoteRow(s, u)} ELSE @]
  /\ req' = [req EXCEPT ![r].pc = "v_upsert", ![r].oldVote = 0]
  /\ UNCHANGED <<tables, ids, lastCast, accounts>>
  /\ UNCHANGED tasks

\* SELECT vote FROM suggestion_votes WHERE <key> FOR UPDATE;
\* oldVote = oldRes.rows[0]?.vote ?? 0
VoteSelectOld(r) ==
  LET p == req[r].projectId
      s == req[r].suggestionId
      u == req[r].userId
      rows == VoteRowsOf(suggestion_votes, p, s, u) IN
  /\ req[r].pc = "v_old"
  /\ rows # {} => CanLock(r, VoteRow(s, u))
  /\ locks' = [locks EXCEPT ![r] = IF rows # {} THEN @ \cup {VoteRow(s, u)} ELSE @]
  /\ req' = [req EXCEPT ![r].pc = "v_upsert",
                        ![r].oldVote = IF rows # {}
                                       THEN suggestion_votes[CHOOSE i \in rows : TRUE].vote
                                       ELSE 0]
  /\ UNCHANGED <<tables, ids, lastCast, accounts>>
  /\ UNCHANGED tasks

\* Mutant of UpsertVote: a plain INSERT into a table without the UNIQUE
\* constraint (every cast adds a row).
InsertVote(votes, id, p, s, u, v) ==
  LET fresh == CHOOSE i \in 1..(Cardinality(DOMAIN votes) + 1) : i \notin DOMAIN votes IN
  votes @@ (fresh :> [project_id |-> p, suggestion_id |-> s, user_id |-> u, vote |-> v])

\* INSERT INTO suggestion_votes ... ON CONFLICT (project_id, suggestion_id, user_id)
\* DO UPDATE SET vote = EXCLUDED.vote: the table after the statement (a row
\* with the key is overwritten in place, otherwise a row with the fresh id is added).
UpsertVote(votes, id, p, s, u, v) ==
  IF VoteRowsOf(votes, p, s, u) # {}
  THEN [i \in DOMAIN votes |->
          IF i \in VoteRowsOf(votes, p, s, u) THEN [votes[i] EXCEPT !.vote = v]
          ELSE votes[i]]
  ELSE votes @@ (id :> [project_id |-> p, suggestion_id |-> s, user_id |-> u, vote |-> v])

\* The upsert statement inside the transaction: the written row is locked and
\* the write stays private until COMMIT.
\* suggestion_votes.user_id REFERENCES users(id): when the voter's users row is
\* gone (and with it, by the cascade, the voter's vote rows) the INSERT fails:
\* catch, ROLLBACK, throw e.  A row that is not there yet is inserted, and the
\* INSERT waits for the users row while a DELETE FROM users holds it; the
\* update of a row that is there asks for no lock on the users row.
VoteUpsert(r) ==
  LET s == req[r].suggestionId
      u == req[r].userId IN
  /\ req[r].pc = "v_upsert"
  /\ VoteRowsOf(suggestion_votes, req[r].projectId, s, u) = {} => ~UserRowHeld(r, u)
  /\ IF UserExists(u)
     THEN /\ CanLock(r, VoteRow(s, u))
          /\ locks' = [locks EXCEPT ![r] = @ \cup {VoteRow(s, u)}]
          /\ req' = [req EXCEPT ![r].pc = "v_agg"]
     ELSE /\ locks' = [locks EXCEPT ![r] = {}]
          /\ req' = [req EXCEPT ![r] = Respond(r, 500)]
  /\ UNCHANGED <<tables, ids, lastCast, accounts>>
  /\ UNCHANGED tasks

\* SUM(CASE WHEN vote = x THEN 1 ELSE 0 END) over the suggestion's vote rows.
CountVotes(votes, p, s, x) ==
  Cardinality({i \in DOMAIN votes : /\ votes[i].project_id = p
                                    /\ votes[i].suggestion_id = s
                                    /\ votes[i].vote = x})

\* Mutant of VoteAggregate: the aggregate computed over the committed rows only,
\* without the transaction's own upsert.
VoteAggregateCommitted(r) ==
  LET p == req[r].projectId
      s == req[r].suggestionId
      up == CountVotes(suggestion_votes, p, s, 1)
      down == CountVotes(suggestion_votes, p, s, -1) IN
  /\ req[r].pc = "v_agg"
  /\ req' = [req EXCEPT ![r].pc = "v_update", ![r].up = up, ![r].down = down,
                        ![r].score = up - down]
  /\ UNCHANGED <<tables, ids, locks, lastCast, accounts>>
  /\ UNCHANGED tasks

\* The aggregate SELECT: it reads the committed rows and the transaction's own upsert.
VoteAggregate(r) ==
  LET p == req[r].projectId
      s == req[r].suggestionId
      view == UpsertVote(suggestion_votes, nextVote, p, s, req[r].userId, req[r].vote)
      up == CountVotes(view, p, s, 1)
      down == CountVotes(view, p, s, -1) IN
  /\ req[r].pc = "v_agg"
  /\ req' = [req EXCEPT ![r].pc = "v_update", ![r].up = up, ![r].down = down,
                        ![r].score = up - down]
  /\ UNCHANGED <<tables, ids, locks, lastCast, accounts>>
  /\ UNCHANGED tasks

\* Mutant of SetCounters: the UPDATE also rejects a suggestion whose score is
\* negative.
SetCountersAndStatus(sugs, p, s, up, down, score) ==
  IF s \in DOMAIN sugs /\ sugs[s].project_id = p
  THEN [sugs EXCEPT ![s].upvotes_count = up, ![s].downvotes_count = down,
                    ![s].score = score,
                    ![s].status = IF score < 0 THEN "rejected" ELSE @]
  ELSE sugs

\* UPDATE suggestions SET upvotes_count = $1, downvotes_count = $2, score = $3
\* WHERE project_id = $4 AND id = $5: the table after the statement.
SetCounters(sugs, p, s, up, down, score) ==
  IF s \in DOMAIN sugs /\ sugs[s].project_id = p
  THEN [sugs EXCEPT ![s].upvotes_count = up, ![s].downvotes_count = down,
                    ![s].score = score]
  ELSE sugs

VoteUpdate(r) ==
  LET s == req[r].suggestionId IN
  /\ req[r].pc = "v_update"
  /\ CanLock(r, SugRow(s))
  /\ locks' = [locks EXCEPT ![r] = @ \cup {SugRow(s)}]
  /\ req' = [req EXCEPT ![r].pc = "v_commit"]
  /\ UNCHANGED <<tables, ids, lastCast, accounts>>
  /\ UNCHANGED tasks

\* res.json({score, likes, dislikes, my_vote, old_vote}): the slot keeps my_vote
\* and old_vote of the answer.
VoteRespond(r) ==
  [Respond(r, 200) EXCEPT !.vote = req[r].vote, !.oldVote = req[r].oldVote]

\* COMMIT: the upsert and the counters become visible together, the locks are
\* released, and the handler answers {score, likes, dislikes, my_vote, old_vote}.
VoteCommit(r) ==
  LET p == req[r].projectId
      s == req[r].suggestionId
      u == req[r].userId IN
  /\ req[r].pc = "v_commit"
  /\ suggestion_votes' = UpsertVote(suggestion_votes, nextVote, p, s, u, req[r].vote)
  /\ nextVote' = IF VoteRowsOf(suggestion_votes, p, s, u) # {} THEN nextVote
                 ELSE nextVote + 1
  /\ suggestions' = SetCounters(suggestions, p, s, req[r].up, req[r].down, req[r].score)
  /\ locks' = [locks EXCEPT ![r] = {}]
  /\ lastCast' = [lastCast EXCEPT ![<<s, u>>] = {req[r].vote}]
  /\ req' = [req EXCEPT ![r] = VoteRespond(r)]
  /\ UNCHANGED <<backlog_items, nextSug, nextBacklog, accounts>>
  /\ UNCHANGED tasks

----------------------------------------------------------------------------
(* POST /projects/:projectId/suggestions/:suggestionId/pull-to-backlog *)

\* Mutant of PromoteRoles: the role list of the backlog listing routes.
PromoteRolesWithManager == {"developer", "manager", "admin"}

\* requireRole(["developer", "admin"]) of the route.
PromoteRoles == {"developer", "admin"}

\* The request arrives from one of the users U.
StartPromoteBy(r, U) ==
  /\ CanStart(r)
  /\ \E u \in U, p \in Projects, s \in 1..nextSug :
       req' = [req EXCEPT ![r] =
                 Admit([IdleReq EXCEPT !.op = "promote", !.userId = u, !.projectId = p,
                                       !.suggestionId = s],
                       PromoteRoles, "p_select")]
  /\ UNCHANGED <<tables, ids, locks, lastCast, accounts>>
  /\ UNCHANGED tasks

StartPromote(r) == StartPromoteBy(r, Users \cup Created)

\* The answer of the pull-to-backlog route: the status code and, with 201, the
\* inserted backlog row (its id); the slot also keeps the request's actor and
\* parameters.
PromoteRespond(r, code, b) ==
  [Respond(r, code) EXCEPT !.userId = req[r].userId,
                           !.projectId = req[r].projectId,
                           !.suggestionId = req[r].suggestionId,
                           !.backlog = b]

\* Mutant of AlreadyPromoted: the handler without its 409 check.
NeverPromoted(sug) == FALSE

\* if (sug.backlog_item_id): the suggestion is already in the backlog.
AlreadyPromoted(sug) == sug.backlog_item_id # NULL

\* Mutant of PromoteSelect: the SELECT without FOR UPDATE (the row is read but
\* not locked, so two promoters can both pass the check).
PromoteSelectNoLock(r) ==
  LET p == req[r].projectId
      s == req[r].suggestionId
      sug == SelectSuggestion(p, s) IN
  /\ req[r].pc = "p_select"
  /\ req' = [req EXCEPT ![r] =
               IF ~sug.found THEN PromoteRespond(r, 404, NULL)
               ELSE IF AlreadyPromoted(sug) THEN PromoteRespond(r, 409, NULL)
               ELSE [req[r] EXCEPT !.pc = "p_insert", !.sug = sug]]
  /\ UNCHANGED <<tables, ids, locks, lastCast, accounts>>
  /\ UNCHANGED tasks

\* BEGIN; SELECT id, title, description, backlog_item_id FROM suggestions
\* WHERE project_id = $1 AND id = $2 FOR UPDATE.  No row: ROLLBACK, 404.
\* backlog_item_id set: ROLLBACK (which releases the lock), 409.
PromoteSelect(r) ==
  LET p == req[r].projectId
      s == req[r].suggestionId
      sug == SelectSuggestion(p, s) IN
  /\ req[r].pc = "p_select"
  /\ IF ~sug.found
     THEN /\ req' = [req EXCEPT ![r] = PromoteRespond(r, 404, NULL)]
          /\ UNCHANGED locks
     ELSE /\ CanLock(r, SugRow(s))
          /\ IF AlreadyPromoted(sug)
             THEN /\ req' = [req EXCEPT ![r] = PromoteRespond(r, 409, NULL)]
                  /\ UNCHANGED locks
             ELSE /\ req' = [req EXCEPT ![r].pc = "p_insert", ![r].sug = sug]
                  /\ locks' = [locks EXCEPT ![r] = @ \cup {SugRow(s)}]
  /\ UNCHANGED <<tables, ids, lastCast, accounts>>
  /\ UNCHANGED tasks

\* uq_backlog_suggestion_per_project: UNIQUE (project_id, suggestion_id)
\* WHERE suggestion_id IS NOT NULL.  Whether inserting (p, s) violates it.
UniqueViolation(items, p, s) ==
  /\ s # NULL
  /\ \E b \in DOMAIN items : items[b].project_id = p /\ items[b].suggestion_id = s

\* Another transaction holds an uncommitted insert of the same index key: the
\* insert waits for it to end.
PendingInsert(r, p, s) ==
  \E o \in Req \ {r} : /\ req[o].op = "promote"
                       /\ req[o].pc \in {"p_update", "p_commit"}
                       /\ req[o].projectId = p
                       /\ req[o].suggestionId = s

\* INSERT INTO backlog_items (project_id, origin_type, suggestion_id, title,
\* summary, created_by_user_id) VALUES ($1, 'suggestion', $2, $3, $4, $5) with
\* the column defaults.
NewBacklogItem(p, origin, s, t, d, u) ==
  [project_id |-> p, origin_type |-> origin, suggestion_id |-> s, title |-> t,
   summary |-> d, stage |-> "todo", progress_percent |-> 0,
   created_by_user_id |-> u]

\* The INSERT statement.  A unique violation, or a created_by_user_id whose
\* users row is gone, throws: catch, ROLLBACK, rethrow (500).  The unique index
\* is checked when the row is written, the reference to users at the end of
\* the statement: that check waits while a DELETE FROM users holds the row.
PromoteInsert(r) ==
  LET p == req[r].projectId
      s == req[r].suggestionId IN
  /\ req[r].pc = "p_insert"
  /\ ~PendingInsert(r, p, s)
  /\ ~UniqueViolation(backlog_items, p, s) => ~UserRowHeld(r, req[r].userId)
  /\ IF UniqueViolation(backlog_items, p, s) \/ ~UserExists(req[r].userId)
     THEN /\ req' = [req EXCEPT ![r] = PromoteRespond(r, 500, NULL)]
          /\ locks' = [locks EXCEPT ![r] = {}]
          /\ UNCHANGED nextBacklog
     ELSE /\ req' = [req EXCEPT ![r].pc = "p_update", ![r].backlog = nextBacklog]
          /\ nextBacklog' = nextBacklog + 1
          /\ UNCHANGED locks
  /\ UNCHANGED <<tables, nextSug, nextVote, lastCast, accounts>>
  /\ UNCHANGED tasks

\* Mutant of MarkPromoted: the UPDATE stores the backlog reference only.
MarkPromotedRefOnly(sugs, p, s, b) ==
  IF s \in DOMAIN sugs /\ sugs[s].project_id = p
  THEN [sugs EXCEPT ![s].backlog_item_id = b]
  ELSE sugs

\* UPDATE suggestions SET status = 'in_progress', backlog_item_id = $1,
\* locked_at = now() WHERE project_id = $2 AND id = $3: the table after it.
MarkPromoted(sugs, p, s, b) ==
  IF s \in DOMAIN sugs /\ sugs[s].project_id = p
  THEN [sugs EXCEPT ![s].status = "in_progress", ![s].backlog_item_id = b,
                    ![s].locked_at = now]
  ELSE sugs

PromoteUpdate(r) ==
  LET s == req[r].suggestionId IN
  /\ req[r].pc = "p_update"
  /\ CanLock(r, SugRow(s))
  /\ locks' = [locks EXCEPT ![r] = @ \cup {SugRow(s)}]
  /\ req' = [req EXCEPT ![r].pc = "p_commit"]
  /\ UNCHANGED <<tables, ids, lastCast, accounts>>
  /\ UNCHANGED tasks

\* COMMIT: the backlog item and the suggestion's update become visible together;
\* the handler answers 201 with the inserted row.
PromoteCommit(r) ==
  LET p == req[r].projectId
      s == req[r].suggestionId
      b == req[r].backlog IN
  /\ req[r].pc = "p_commit"
  /\ backlog_items' = backlog_items @@
        (b :> NewBacklogItem(p, "suggestion", s, req[r].sug.title,
                             req[r].sug.description, req[r].userId))
  /\ suggestions' = MarkPromoted(suggestions, p, s, b)
  /\ locks' = [locks EXCEPT ![r] = {}]
  /\ req' = [req EXCEPT ![r] = PromoteRespond(r, 201, b)]
  /\ UNCHANGED <<suggestion_votes, ids, lastCast, accounts>>
  /\ UNCHANGED tasks

\* Mutant of PromoteFail: a failure after the INSERT leaves the inserted
\* backlog item behind (no ROLLBACK).
PromoteFailPartial(r) ==
  /\ req[r].pc \in {"p_select", "p_insert", "p_update", "p_commit"}
  /\ backlog_items' =
       IF req[r].pc \in {"p_update", "p_commit"}
       THEN backlog_items @@
              (req[r].backlog :> NewBacklogItem(req[r].projectId, "suggestion",
                                                req[r].suggestionId, req[r].sug.title,
                                                req[r].sug.description, req[r].userId))
       ELSE backlog_items
  /\ locks' = [locks EXCEPT ![r] = {}]
  /\ req' = [req EXCEPT ![r] = PromoteRespond(r, 500, NULL)]
  /\ UNCHANGED <<suggestions, suggestion_votes, ids, lastCast, accounts>>
  /\ UNCHANGED tasks

\* A statement of the handler throws (the connection is lost, the statement is
\* cancelled): catch, ROLLBACK, throw e; the request fails with 500 and none of
\* the transaction's writes is kept (the id the INSERT drew stays used).
PromoteFail(r) ==
  /\ req[r].pc \in {"p_select", "p_insert", "p_update", "p_commit"}
  /\ locks' = [locks EXCEPT ![r] = {}]
  /\ req' = [req EXCEPT ![r] = PromoteRespond(r, 500, NULL)]
  /\ UNCHANGED <<tables, ids, lastCast, accounts>>
  /\ UNCHANGED tasks

\* Mutant of PromoteInsert: the INSERT into a table without the unique index.
PromoteInsertNoIndex(r) ==
  /\ req[r].pc = "p_insert"
  /\ ~UserRowHeld(r, req[r].userId)
  /\ IF ~UserExists(req[r].userId)
     THEN /\ req' = [req EXCEPT ![r] = PromoteRespond(r, 500, NULL)]
          /\ locks' = [locks EXCEPT ![r] = {}]
          /\ UNCHANGED nextBacklog
     ELSE /\ req' = [req EXCEPT ![r].pc = "p_update", ![r].backlog = nextBacklog]
          /\ nextBacklog' = nextBacklog + 1
          /\ UNCHANGED locks
  /\ UNCHANGED <<tables, nextSug, nextVote, lastCast, accounts>>
  /\ UNCHANGED tasks

\* Mutant of pull_to_backlog: a promotion that is serialised neither by the row
\* lock nor by the unique index.
PromoteUnguarded(r) ==
  PromoteSelectNoLock(r) \/ PromoteInsertNoIndex(r) \/ PromoteUpdate(r) \/ PromoteCommit(r)

\* The handler: its statements in order.
pull_to_backlog(r) ==
  PromoteSelect(r) \/ PromoteInsert(r) \/ PromoteUpdate(r) \/ PromoteCommit(r)

----------------------------------------------------------------------------
(* POST /projects/:projectId/backlog (manual backlog item) *)

StartBacklog(r) ==
  /\ CanStart(r)
  /\ \E u \in Users \cup Created, p \in Projects :
       req' = [req EXCEPT ![r] =
                 Admit([IdleReq EXCEPT !.op = "backlog", !.userId = u, !.projectId = p,
                                       !.title = 1],
                       {"developer", "admin"}, "b_insert")]
  /\ UNCHANGED <<tables, ids, locks, lastCast, accounts>>
  /\ UNCHANGED tasks

\* INSERT INTO backlog_items (project_id, origin_type, title, summary, priority,
\* created_by_user_id) VALUES ($1, 'manual', $2, $3, $4, $5): suggestion_id
\* stays NULL; created_by_user_id REFERENCES users(id).
BacklogInsert(r) ==
  /\ req[r].pc = "b_insert"
  /\ ~UserRowHeld(r, req[r].userId)
  /\ IF UserExists(req[r].userId)
     THEN /\ backlog_items' = backlog_items @@
                (nextBacklog :> NewBacklogItem(req[r].projectId, "manual", NULL,
                                               req[r].title, req[r].description,
                                               req[r].userId))
          /\ nextBacklog' = nextBacklog + 1
          /\ req' = [req EXCEPT ![r] = Respond(r, 201)]
     ELSE /\ req' = [req EXCEPT ![r] = Respond(r, 500)]
          /\ UNCHANGED <<backlog_items, nextBacklog>>
  /\ UNCHANGED <<suggestions, suggestion_votes, nextSug, nextVote, locks, lastCast, accounts>>
  /\ UNCHANGED tasks

----------------------------------------------------------------------------
(* The system *)

\* Ids the store can hand out: the seeded suggestion and one per request.
----------------------------------------------------------------------------
(* services/progress.service.ts: Math.round((done / total) * 100)            *)
(* done / total and the product by 100 are IEEE-754 double operations, each  *)
(* rounded to 53 significant bits (nearest, ties to even).  A double is the  *)
(* record [m, s]: m its 53 significand bits, most significant first, and s   *)
(* the scale, so that the value is m * 2^(-s).                               *)

\* Significand width of a double.
MantBits == 53

\* The number of leading zero bits of the binary fraction r / t (0 < r < t).
RECURSIVE LeadingZeros(_, _)
LeadingZeros(r, t) == IF 2 * r >= t THEN 0 ELSE 1 + LeadingZeros(2 * r, t)

\* 2^i modulo t, by repeated squaring.
RECURSIVE Pow2Mod(_, _)
Pow2Mod(i, t) ==
  IF i = 0 THEN 1 % t
  ELSE LET h == Pow2Mod(i \div 2, t) IN
       (h * h * (IF i % 2 = 1 THEN 2 ELSE 1)) % t

\* The remainder of the long division of r by t after n bits: r * 2^n modulo t.
FracRem(r, t, n) == (r * Pow2Mod(n, t)) % t

\* The first n bits of the binary fraction r / t (0 <= r < t), by long
\* division: bit i is 1 when twice the remainder after i - 1 bits reaches t.
FracBits(r, t, n) ==
  [i \in 1..n |-> IF 2 * FracRem(r, t, i - 1) >= t THEN 1 ELSE 0]

\* n zero bits.
Zeros(n) == [i \in 1..n |-> 0]

\* All bits of the sequence from position i on are 1.
AllOnes(bits, i) == \A j \in i..Len(bits) : bits[j] = 1

\* bits + 1 modulo 2^Len(bits).
Inc(bits) ==
  [i \in 1..Len(bits) |-> (bits[i] + (IF AllOnes(bits, i + 1) THEN 1 ELSE 0)) % 2]

\* The sum of two bit sequences of equal length n, as n + 1 bits.
\* The carry out of position i is 1 when some position j to its right (or i)
\* generates a carry and every position between propagates it.
AddBits(a, b) ==
  LET n == Len(a)
      c(i) == IF \E j \in i..n : /\ a[j] + b[j] = 2
                                 /\ \A k \in i..(j - 1) : a[k] + b[k] >= 1
              THEN 1 ELSE 0 IN
  <<c(1)>> \o [i \in 1..n |-> (a[i] + b[i] + c(i + 1)) % 2]

\* The bit sequence without its leading zeros.
RECURSIVE Strip(_)
Strip(bits) == IF bits # <<>> /\ Head(bits) = 0 THEN Strip(Tail(bits)) ELSE bits

\* The value of a short bit sequence.
RECURSIVE BitsToInt(_)
BitsToInt(bits) ==
  IF bits = <<>> THEN 0
  ELSE 2 * BitsToInt(SubSeq(bits, 1, Len(bits) - 1)) + bits[Len(bits)]

\* Round to nearest, ties to even: the double for the exact value
\* bits * 2^(-s) (bits has a leading 1 and at least MantBits bits; sticky tells
\* that the exact value has further non-zero bits below).
RoundToDouble(bits, s, sticky) ==
  LET L == Len(bits)
      head == SubSeq(bits, 1, MantBits)
      rnd == IF L > MantBits THEN bits[MantBits + 1] ELSE 0
      rest == sticky \/ \E j \in (MantBits + 2)..L : bits[j] = 1
      up == rnd = 1 /\ (rest \/ head[MantBits] = 1)
      scale == s - (L - MantBits) IN
  IF ~up THEN [m |-> head, s |-> scale]
  ELSE IF AllOnes(head, 1) THEN [m |-> <<1>> \o Zeros(MantBits - 1), s |-> scale - 1]
  ELSE [m |-> Inc(head), s |-> scale]

\* done / total as a double (0 < d <= t).
DoubleDiv(d, t) ==
  IF d = t THEN [m |-> <<1>> \o Zeros(MantBits - 1), s |-> MantBits - 1]
  ELSE LET z == LeadingZeros(d, t)
           n == z + MantBits + 1 IN
       RoundToDouble(SubSeq(FracBits(d, t, n), z + 1, n), n, FracRem(d, t, n) # 0)

\* x * 100 as a double: 100 x = 64 x + 32 x + 4 x.
DoubleTimes100(x) ==
  LET a == x.m \o Zeros(6)
      b == <<0>> \o x.m \o Zeros(5)
      c == Zeros(5) \o x.m \o Zeros(2)
      sum == AddBits(AddBits(a, b), c) IN
  RoundToDouble(Strip(sum), x.s, FALSE)

\* Math.round(x) for a double 0.5 <= x < 2^31: the integer part, plus one when
\* the fraction is at least one half.
MathRound(x) ==
  LET k == MantBits - x.s IN
  IF k < 0 THEN 0
  ELSE BitsToInt(SubSeq(x.m, 1, k)) + (IF k < MantBits THEN x.m[k + 1] ELSE 0)

\* const progress = total === 0 ? 0 : Math.round((done / total) * 100)
Progress(done, total) ==
  IF total = 0 \/ done = 0 THEN 0
  ELSE MathRound(DoubleTimes100(DoubleDiv(done, total)))

\* The largest number of tasks of an item when recalcProgress is called.
MaxTotal == 40

\* Progress for every pair of counts up to MaxTotal, evaluated once (@@ makes
\* the function an explicit table).
ProgressTable ==
  [k \in {c \in (0..MaxTotal) \X (0..MaxTotal) : c[1] <= c[2]} |->
     Progress(k[1], k[2])] @@ <<>>

\* Progress(done, total), read from the table when it holds the pair.
ProgressOf(done, total) ==
  IF total <= MaxTotal THEN ProgressTable[<<done, total>>] ELSE Progress(done, total)

----------------------------------------------------------------------------
(* recalcProgress(projectId, backlogItemId): one transaction, one action per *)
(* awaited statement.  It runs at the end of the three task handlers, which  *)
(* continue at "rc_count" after their own autocommitted write.               *)

\* The lock of a backlog_items row.
ItemRow(b) == <<"backlog_items", b, 0>>

\* ... FROM backlog_items WHERE project_id = $1 AND id = $2 finds a row.
ItemInProject(p, b) ==
  b \in DOMAIN backlog_items /\ backlog_items[b].project_id = p

\* The ids of the tasks with project_id = $1 AND backlog_item_id = $2.
TasksOf(tbl, p, b) ==
  {t \in DOMAIN tbl : tbl[t].project_id = p /\ tbl[t].backlog_item_id = b}

\* Those of them with is_done.
DoneTasksOf(tbl, p, b) == {t \in TasksOf(tbl, p, b) : tbl[t].is_done}

\* BEGIN; SELECT COUNT(*) AS total, SUM(CASE WHEN is_done ...) AS done; then
\* progress is computed from the two counts.
RecalcCount(r) ==
  LET p == req[r].projectId
      b == req[r].backlogItemId
      total == Cardinality(TasksOf(backlog_tasks, p, b))
      done == Cardinality(DoneTasksOf(backlog_tasks, p, b)) IN
  /\ req[r].pc = "rc_count"
  /\ req' = [req EXCEPT ![r].pc = "rc_item", ![r].total = total, ![r].done = done,
                        ![r].progress = ProgressOf(done, total)]
  /\ UNCHANGED <<tables, ids, locks, lastCast, tasks, accounts>>

\* UPDATE backlog_items SET progress_percent = $1 WHERE project_id = $2 AND
\* id = $3: waits for the row lock, then holds it until the transaction ends;
\* without such a row the statement updates nothing and locks nothing.
RecalcUpdateItem(r) ==
  LET b == req[r].backlogItemId
      rows == IF ItemInProject(req[r].projectId, b) THEN {ItemRow(b)} ELSE {} IN
  /\ req[r].pc = "rc_item"
  /\ \A row \in rows : CanLock(r, row)
  /\ locks' = [locks EXCEPT ![r] = @ \cup rows]
  /\ req' = [req EXCEPT ![r].pc = "rc_link"]
  /\ UNCHANGED <<tables, ids, lastCast, tasks, accounts>>

\* SELECT suggestion_id FROM backlog_items WHERE project_id = $1 AND id = $2;
\* if (suggestionId) the suggestion is updated next.
RecalcSelectLink(r) ==
  LET p == req[r].projectId
      b == req[r].backlogItemId
      link == IF ItemInProject(p, b) THEN backlog_items[b].suggestion_id ELSE NULL IN
  /\ req[r].pc = "rc_link"
  /\ req' = [req EXCEPT ![r].pc = IF link # NULL THEN "rc_sug" ELSE "rc_commit",
                        ![r].link = link]
  /\ UNCHANGED <<tables, ids, locks, lastCast, tasks, accounts>>

\* UPDATE suggestions SET progress_percent = $1 WHERE project_id = $2 AND id = $3.
RecalcUpdateSuggestion(r) ==
  LET s == req[r].link IN
  /\ req[r].pc = "rc_sug"
  /\ CanLock(r, SugRow(s))
  /\ locks' = [locks EXCEPT ![r] = @ \cup {SugRow(s)}]
  /\ req' = [req EXCEPT ![r].pc = "rc_commit"]
  /\ UNCHANGED <<tables, ids, lastCast, tasks, accounts>>

\* backlog_items after the transaction's UPDATE of the item.
SetItemProgress(items, p, b, x) ==
  IF b \in DOMAIN items /\ items[b].project_id = p
  THEN [items EXCEPT ![b].progress_percent = x]
  ELSE items

\* Mutant of Mirror: recalcProgress without the update of the suggestion.
MirrorNone(sugs, p, s, x) == sugs

\* suggestions after the transaction's UPDATE of the linked suggestion (none
\* when the item has no suggestion_id).
Mirror(sugs, p, s, x) ==
  IF s # NULL /\ s \in DOMAIN sugs /\ sugs[s].project_id = p
  THEN [sugs EXCEPT ![s].progress_percent = x]
  ELSE sugs

\* The status of the answer the handler sends after recalcProgress returned.
TaskOk(op) == IF op = "task_create" THEN 201 ELSE 200

\* COMMIT: both updates become visible together, the locks are released and
\* recalcProgress returns {backlogProgress, suggestionProgress}; its other
\* locals are gone.  POST and DELETE task answer at once, PATCH task goes on to
\* re-read the task; for a direct call the slot keeps the arguments and the
\* returned value.
RecalcReturn(r) ==
  IF req[r].op = "task_update"
  THEN [req[r] EXCEPT !.pc = "tu_reread", !.total = 0, !.done = 0]
  ELSE IF req[r].op = "recalc"
  THEN [Respond(r, 200) EXCEPT !.projectId = req[r].projectId,
                               !.backlogItemId = req[r].backlogItemId,
                               !.progress = req[r].progress, !.link = req[r].link]
  ELSE Respond(r, TaskOk(req[r].op))

RecalcCommit(r) ==
  LET p == req[r].projectId
      b == req[r].backlogItemId IN
  /\ req[r].pc = "rc_commit"
  /\ backlog_items' = SetItemProgress(backlog_items, p, b, req[r].progress)
  /\ suggestions' = Mirror(suggestions, p, req[r].link, req[r].progress)
  /\ locks' = [locks EXCEPT ![r] = {}]
  /\ req' = [req EXCEPT ![r] = RecalcReturn(r)]
  /\ UNCHANGED <<suggestion_votes, ids, lastCast, tasks, accounts>>

\* Mutant of RecalcFail: the catch block without its ROLLBACK (the transaction
\* stays open and keeps its row locks).
RecalcFailNoRollback(r) ==
  /\ req[r].pc \in {"rc_count", "rc_item", "rc_link", "rc_sug", "rc_commit"}
  /\ req' = [req EXCEPT ![r] = Respond(r, 500)]
  /\ UNCHANGED <<tables, ids, locks, lastCast, tasks, accounts>>

\* A statement of recalcProgress throws (the connection is lost, the statement
\* is cancelled): catch, ROLLBACK, throw e; the handler's request fails with 500.
RecalcFail(r) ==
  /\ req[r].pc \in {"rc_count", "rc_item", "rc_link", "rc_sug", "rc_commit"}
  /\ locks' = [locks EXCEPT ![r] = {}]
  /\ req' = [req EXCEPT ![r] = Respond(r, 500)]
  /\ UNCHANGED <<tables, ids, lastCast, tasks, accounts>>

recalcProgress(r) ==
  \/ RecalcCount(r) \/ RecalcUpdateItem(r) \/ RecalcSelectLink(r)
  \/ RecalcUpdateSuggestion(r) \/ RecalcCommit(r) \/ RecalcFail(r)

----------------------------------------------------------------------------
(* Task routes of routes/backlog.routes.ts *)

\* developer_stacks.code
Stacks == {"frontend", "backend", "infra"}

\* The actors of the task routes: the four seeded users.
Actors == {1, 2, 3, 4}

\* getUserStacks(userId) of sql.ts: the codes of the user's rows of
\* user_developer_stacks.
getUserStacks(u) == {row[2] : row \in {x \in user_developer_stacks : x[1] = u}}

\* Mutant of StackAllowed: the handlers without their stack check.
StackAlwaysAllowed(u, k) == TRUE

\* if (role === "developer") { if (!stacks.includes(stack)) return 403 }
StackAllowed(u, k) == RoleOf(u) = "developer" => k \in getUserStacks(u)

\* INSERT INTO backlog_tasks (...) with the column defaults.
NewTask(p, b, k, u) ==
  [project_id |-> p, backlog_item_id |-> b, stack |-> k, is_done |-> FALSE,
   done_at |-> NULL, created_by_user_id |-> u]

\* ... FROM backlog_tasks t WHERE t.project_id = $1 AND t.backlog_item_id = $2
\* AND t.id = $3 finds a row.
TaskInItem(p, b, t) ==
  /\ t \in DOMAIN backlog_tasks
  /\ backlog_tasks[t].project_id = p
  /\ backlog_tasks[t].backlog_item_id = b

(* POST /projects/:projectId/backlog/:backlogItemId/tasks *)

StartTaskCreate(r) ==
  /\ CanStart(r)
  /\ \E u \in Actors \cup Created, p \in Projects, b \in 1..nextBacklog, k \in Stacks :
       req' = [req EXCEPT ![r] =
                 Admit([IdleReq EXCEPT !.op = "task_create", !.userId = u,
                                       !.projectId = p, !.backlogItemId = b,
                                       !.stack = k],
                       {"developer", "admin"}, "tc_stack")]
  /\ UNCHANGED <<tables, ids, locks, lastCast, tasks, accounts>>

\* The stack check of a developer (getUserStacks), then the stack id lookup.
TaskCreateStack(r) ==
  /\ req[r].pc = "tc_stack"
  /\ req' = [req EXCEPT ![r] = IF StackAllowed(req[r].userId, req[r].stack)
                               THEN [req[r] EXCEPT !.pc = "tc_exists"]
                               ELSE Forbidden(r)]
  /\ UNCHANGED <<tables, ids, locks, lastCast, tasks, accounts>>

\* SELECT id FROM backlog_items WHERE project_id = $1 AND id = $2; none: 404.
TaskCreateExists(r) ==
  /\ req[r].pc = "tc_exists"
  /\ req' = [req EXCEPT ![r] = IF ItemInProject(req[r].projectId, req[r].backlogItemId)
                               THEN [req[r] EXCEPT !.pc = "tc_insert"]
                               ELSE Respond(r, 404)]
  /\ UNCHANGED <<tables, ids, locks, lastCast, tasks, accounts>>

\* INSERT INTO backlog_tasks ... (autocommit), then recalcProgress;
\* created_by_user_id REFERENCES users(id).
TaskCreateInsert(r) ==
  /\ req[r].pc = "tc_insert"
  /\ ~UserRowHeld(r, req[r].userId)
  /\ IF UserExists(req[r].userId)
     THEN /\ backlog_tasks' = backlog_tasks @@
               (nextTask :> NewTask(req[r].projectId, req[r].backlogItemId,
                                    req[r].stack, req[r].userId))
          /\ nextTask' = nextTask + 1
          /\ req' = [req EXCEPT ![r].pc = "rc_count", ![r].taskId = nextTask]
     ELSE /\ req' = [req EXCEPT ![r] = Respond(r, 500)]
          /\ UNCHANGED tasks
  /\ UNCHANGED <<tables, ids, locks, lastCast, accounts>>

(* PATCH and DELETE /projects/:projectId/backlog/:backlogItemId/tasks/:taskId *)

\* The bodies tried: is_done true, is_done false, and a body without is_done
\* (a change of title only).
DoneBodies == {[hasDone |-> TRUE, isDone |-> TRUE], [hasDone |-> TRUE, isDone |-> FALSE],
               [hasDone |-> FALSE, isDone |-> FALSE]}

StartTaskUpdate(r) ==
  /\ CanStart(r)
  /\ \E u \in Actors \cup Created, p \in Projects, b \in 1..nextBacklog,
        t \in 1..nextTask,
        body \in DoneBodies :
       req' = [req EXCEPT ![r] =
                 Admit([IdleReq EXCEPT !.op = "task_update", !.userId = u,
                                       !.projectId = p, !.backlogItemId = b,
                                       !.taskId = t, !.hasDone = body.hasDone,
                                       !.isDone = body.isDone],
                       {"developer", "admin"}, "tu_lookup")]
  /\ UNCHANGED <<tables, ids, locks, lastCast, tasks, accounts>>

StartTaskDelete(r) ==
  /\ CanStart(r)
  /\ \E u \in Actors \cup Created, p \in Projects, b \in 1..nextBacklog,
        t \in 1..nextTask :
       req' = [req EXCEPT ![r] =
                 Admit([IdleReq EXCEPT !.op = "task_delete", !.userId = u,
                                       !.projectId = p, !.backlogItemId = b,
                                       !.taskId = t],
                       {"developer", "admin"}, "td_lookup")]
  /\ UNCHANGED <<tables, ids, locks, lastCast, tasks, accounts>>

\* "buscar stack da task": SELECT ... FROM backlog_tasks t JOIN
\* developer_stacks ds WHERE t.project_id = $1 AND t.backlog_item_id = $2 AND
\* t.id = $3; no row: 404.  A developer's handler goes on to getUserStacks
\* with the stack of the row it read, any other to its write.
TaskLookup(r) ==
  LET p == req[r].projectId
      b == req[r].backlogItemId
      t == req[r].taskId
      isUpdate == req[r].pc = "tu_lookup" IN
  /\ req[r].pc \in {"tu_lookup", "td_lookup"}
  /\ req' = [req EXCEPT ![r] =
               IF ~TaskInItem(p, b, t) THEN Respond(r, 404)
               ELSE IF RoleOf(req[r].userId) = "developer"
                    THEN [req[r] EXCEPT !.stack = backlog_tasks[t].stack,
                                        !.pc = IF isUpdate THEN "tu_stacks"
                                               ELSE "td_stacks"]
               ELSE [req[r] EXCEPT !.pc = IF isUpdate THEN "tu_write" ELSE "td_write"]]
  /\ UNCHANGED <<tables, ids, locks, lastCast, tasks, accounts>>

\* Mutant of TaskStackCheck: a task the developer may not touch is reported
\* as absent.
TaskStackCheckHiding(r) ==
  /\ req[r].pc \in {"tu_stacks", "td_stacks"}
  /\ req' = [req EXCEPT ![r] =
               IF ~StackAllowed(req[r].userId, req[r].stack) THEN Respond(r, 404)
               ELSE [req[r] EXCEPT !.stack = "",
                                   !.pc = IF req[r].pc = "tu_stacks" THEN "tu_write"
                                          ELSE "td_write"]]
  /\ UNCHANGED <<tables, ids, locks, lastCast, tasks, accounts>>

\* const stacks = await getUserStacks(req.auth.userId); the stack of the task
\* read before is not among them: 403; otherwise the handler goes on to its
\* write.
TaskStackCheck(r) ==
  /\ req[r].pc \in {"tu_stacks", "td_stacks"}
  /\ req' = [req EXCEPT ![r] =
               IF ~StackAllowed(req[r].userId, req[r].stack) THEN Forbidden(r)
               ELSE [req[r] EXCEPT !.stack = "",
                                   !.pc = IF req[r].pc = "tu_stacks" THEN "tu_write"
                                          ELSE "td_write"]]
  /\ UNCHANGED <<tables, ids, locks, lastCast, tasks, accounts>>

\* Mutant of UpdatedTask: done_at is stamped by every update that leaves the
\* task done.
UpdatedTaskRestamp(row, hasDone, isDone) ==
  LET newDone == IF hasDone THEN isDone ELSE row.is_done IN
  [row EXCEPT !.is_done = newDone, !.done_at = IF newDone THEN now ELSE NULL]

\* is_done = COALESCE($3, is_done); done_at = CASE WHEN COALESCE($3, is_done) =
\* true AND is_done = false THEN now() WHEN COALESCE($3, is_done) = false THEN
\* NULL ELSE done_at END: the row after the UPDATE.
UpdatedTask(row, hasDone, isDone) ==
  LET newDone == IF hasDone THEN isDone ELSE row.is_done IN
  [row EXCEPT !.is_done = newDone,
              !.done_at = IF newDone /\ ~row.is_done THEN now
                          ELSE IF ~newDone THEN NULL
                          ELSE row.done_at]

\* Mutant of TaskUpdateWrite: the UPDATE also moves the task to the frontend
\* stack.
TaskUpdateRestack(r) ==
  LET t == req[r].taskId IN
  /\ req[r].pc = "tu_write"
  /\ backlog_tasks' =
       IF TaskInItem(req[r].projectId, req[r].backlogItemId, t)
       THEN [backlog_tasks EXCEPT
               ![t] = [UpdatedTask(@, req[r].hasDone, req[r].isDone)
                         EXCEPT !.stack = "frontend"]]
       ELSE backlog_tasks
  /\ req' = [req EXCEPT ![r].pc = "rc_count"]
  /\ UNCHANGED <<tables, ids, locks, lastCast, nextTask, accounts>>

\* UPDATE backlog_tasks SET ... WHERE project_id = $5 AND backlog_item_id = $6
\* AND id = $7 (autocommit), then recalcProgress.
TaskUpdateWrite(r) ==
  LET t == req[r].taskId IN
  /\ req[r].pc = "tu_write"
  /\ backlog_tasks' =
       IF TaskInItem(req[r].projectId, req[r].backlogItemId, t)
       THEN [backlog_tasks EXCEPT ![t] = UpdatedTask(@, req[r].hasDone, req[r].isDone)]
       ELSE backlog_tasks
  /\ req' = [req EXCEPT ![r].pc = "rc_count"]
  /\ UNCHANGED <<tables, ids, locks, lastCast, nextTask, accounts>>

\* SELECT t.id, ds.code as stack, ..., t.is_done FROM backlog_tasks t WHERE
\* t.project_id = $1 AND t.backlog_item_id = $2 AND t.id = $3: rows[0], which is
\* undefined (found = FALSE) when the result is empty.
SelectTask(p, b, t) ==
  IF TaskInItem(p, b, t)
  THEN [found |-> TRUE, id |-> t, stack |-> backlog_tasks[t].stack,
        is_done |-> backlog_tasks[t].is_done]
  ELSE IdleReq.task

\* The re-read of the task after recalcProgress returned, and the answer
\* res.json({task: updatedRes.rows[0], backlog_progress_percent,
\* suggestion_progress_percent}); the slot keeps the answer and the request's
\* task id and is_done.
TaskUpdateReread(r) ==
  /\ req[r].pc = "tu_reread"
  /\ req' = [req EXCEPT ![r] =
               [Respond(r, 200) EXCEPT
                  !.taskId = req[r].taskId, !.hasDone = req[r].hasDone,
                  !.isDone = req[r].isDone, !.progress = req[r].progress,
                  !.link = req[r].link,
                  !.task = SelectTask(req[r].projectId, req[r].backlogItemId,
                                      req[r].taskId)]]
  /\ UNCHANGED <<tables, ids, locks, lastCast, tasks, accounts>>

\* DELETE FROM backlog_tasks WHERE project_id = $1 AND backlog_item_id = $2 AND
\* id = $3 (autocommit), then recalcProgress.
TaskDeleteWrite(r) ==
  LET t == req[r].taskId IN
  /\ req[r].pc = "td_write"
  /\ backlog_tasks' =
       IF TaskInItem(req[r].projectId, req[r].backlogItemId, t)
       THEN Without(backlog_tasks, t)
       ELSE backlog_tasks
  /\ req' = [req EXCEPT ![r].pc = "rc_count"]
  /\ UNCHANGED <<tables, ids, locks, lastCast, nextTask, accounts>>

----------------------------------------------------------------------------
(* The admin routes that write the accounts: routes/admin.routes.ts          *)
(* (adminRoutes) and routes/admin.memberships.routes.ts                      *)
(* (adminMembershipRoutes).  adminRoutes is mounted first and guards every   *)
(* request that reaches it with authRequired and requireRole(["admin"]), so  *)
(* the routes of the routers mounted after it are admin-only too, and a path *)
(* that adminRoutes serves is answered by adminRoutes.  Every statement goes *)
(* through pool.query: it is its own transaction.                            *)

\* The seeded users that send admin requests: the developer and the admin.
AdminActors == {1, 3}

\* adminRoutes.use(authRequired, requireRole(["admin"])): 403 unless the role
\* of the token is admin; no membership is asked for.
AdminAdmit(rq, first) ==
  IF ~requireRole({"admin"}, rq.userId)
  THEN [IdleReq EXCEPT !.op = rq.op, !.pc = "done", !.status = 403,
                       !.userId = rq.userId]
  ELSE [rq EXCEPT !.pc = first]

\* res.status(code).json(...) of an admin handler: the slot keeps the route
\* and the status code of the answer.
AdminRespond(rq, code) == [IdleReq EXCEPT !.op = rq.op, !.pc = "done", !.status = code]

(* POST /admin/projects/:projectId/members/:userId (adminRoutes) and         *)
(* POST /admin/projects/:projectId/members with body {user_id}               *)
(* (adminMembershipRoutes): the same statements.                             *)

\* The memberships the admin requests name, as <<project, user>>: the one of
\* user 1 in project 1, which is seeded, and the one of user 2 in project 2,
\* which is not.
MemberInputs == {<<1, 1>>, <<2, 2>>}

\* The memberships of the created accounts in project 1.
NewMembers == {1} \X Created

\* "valida existencia": SELECT id FROM projects and SELECT id FROM users
\* (Promise.all); the project of the request exists, a missing user is 404.
MemberAddCheck(rq) ==
  IF rq.pc = "done" \/ rq.targetUser \in users THEN rq ELSE AdminRespond(rq, 404)

\* The request arrives and the handler runs up to its INSERT; the callers and
\* the memberships named are drawn from `actors` and `inputs`.
StartMemberAdd(r, actors, inputs) ==
  /\ CanStart(r)
  /\ \E a \in actors, m \in inputs :
       req' = [req EXCEPT ![r] =
                 MemberAddCheck(
                   AdminAdmit([IdleReq EXCEPT !.op = "member_add", !.userId = a,
                                              !.projectId = m[1], !.targetUser = m[2]],
                              "ma_insert"))]
  /\ UNCHANGED <<tables, ids, locks, lastCast, tasks, accounts>>

\* The body schema: user_id, a uuid.
StartMemberAddBody(r, actors, inputs) ==
  /\ CanStart(r)
  /\ \E a \in actors, m \in inputs :
     \E body \in [user_id : {m[2]}] :
       req' = [req EXCEPT ![r] =
                 MemberAddCheck(
                   AdminAdmit([IdleReq EXCEPT !.op = "member_add", !.userId = a,
                                              !.projectId = m[1],
                                              !.targetUser = body.user_id],
                              "ma_insert"))]
  /\ UNCHANGED <<tables, ids, locks, lastCast, tasks, accounts>>

\* INSERT INTO project_members (project_id, user_id) VALUES ($1, $2)
\* ON CONFLICT DO NOTHING, then 201; user_id REFERENCES users(id).
MemberAddInsert(r) ==
  /\ req[r].pc = "ma_insert"
  /\ ~UserRowHeld(r, req[r].targetUser)
  /\ IF UserExists(req[r].targetUser)
     THEN /\ project_members' =
               project_members \cup {<<req[r].projectId, req[r].targetUser>>}
          /\ req' = [req EXCEPT ![r] = Respond(r, 201)]
     ELSE /\ req' = [req EXCEPT ![r] = Respond(r, 500)]
          /\ UNCHANGED project_members
  /\ UNCHANGED <<tables, ids, locks, lastCast, tasks, users, user_developer_stacks,
                 created, nextUser>>

(* DELETE /admin/projects/:projectId/members/:userId *)

\* The whole handler, its one statement: DELETE FROM project_members WHERE
\* project_id = $1 AND user_id = $2; rowCount 0: 404 ("Atrelamento nao
\* encontrado"), otherwise 200.
MemberDelete(r, actors, inputs) ==
  /\ CanStart(r)
  /\ \E a \in actors, m \in inputs :
       LET rq == AdminAdmit([IdleReq EXCEPT !.op = "member_delete", !.userId = a,
                                            !.projectId = m[1], !.targetUser = m[2]],
                            "md_delete") IN
       IF rq.pc = "done"
       THEN /\ req' = [req EXCEPT ![r] = rq]
            /\ UNCHANGED project_members
       ELSE /\ project_members' = project_members \ {m}
            /\ req' = [req EXCEPT ![r] =
                         AdminRespond(rq, IF m \in project_members THEN 200 ELSE 404)]
  /\ UNCHANGED <<tables, ids, locks, lastCast, tasks, users, user_developer_stacks,
                 created, nextUser>>

(* DELETE /admin/users/:userId *)

\* The vote rows of user u that the open transaction of another session has
\* locked.
LockedVoteRows(r, u) ==
  {row \in UNION {locks[o] : o \in Req \ {r}} :
     row[1] = "suggestion_votes" /\ row[3] = u}

\* The users row of u as a lockable row.
UserRow(u) == <<"users", u, 0>>

\* Another session's open transaction holds the key-share lock on users row u:
\* it has inserted, and not yet committed, a row that names u (a vote row that
\* was not there before, the backlog item of a promotion, a stack row).
UserKeyShared(r, u) ==
  \/ \E o \in Req \ {r} : UserRow(u) \in locks[o]
  \/ \E row \in LockedVoteRows(r, u) :
       \A i \in DOMAIN suggestion_votes :
         ~(suggestion_votes[i].suggestion_id = row[2] /\ suggestion_votes[i].user_id = u)
  \/ \E o \in Req \ {r} : /\ req[o].op = "promote"
                          /\ req[o].pc \in {"p_update", "p_commit"}
                          /\ req[o].userId = u

\* projects.created_by_user_id REFERENCES users(id) ON DELETE RESTRICT: a
\* project names u as its creator (no statement locks a projects row).
CreatedProject(u) == \E p \in Projects : ProjectCreator(p) = u

\* suggestions.created_by_user_id ... ON DELETE RESTRICT: the suggestions that
\* name u as their author.
Authored(u) == {s \in DOMAIN suggestions : suggestions[s].created_by_user_id = u}

\* backlog_items.created_by_user_id and backlog_tasks.created_by_user_id ...
\* ON DELETE RESTRICT: a backlog item or a task names u (the UPDATEs of
\* recalcProgress and of the task routes change no key, so the check does not
\* wait for them).
BacklogReferenced(u) ==
  \/ \E b \in DOMAIN backlog_items : backlog_items[b].created_by_user_id = u
  \/ \E t \in DOMAIN backlog_tasks : backlog_tasks[t].created_by_user_id = u

\* The sessions whose open transaction holds the row of suggestion s FOR
\* UPDATE: castVote and pull-to-backlog select it so.  The RESTRICT check
\* locks the referencing row FOR KEY SHARE, which waits for them (and not for
\* the non-key UPDATE of recalcProgress).
SugHolders(r, s) ==
  {o \in Req \ {r} : SugRow(s) \in locks[o] /\ req[o].op \in {"vote", "promote"}}

\* res.json / the error handler of DELETE /admin/users once the statement had
\* the users row: the slot keeps, with the route and the code, the account
\* the request named.
DeleteRespond(rq, code) == [AdminRespond(rq, code) EXCEPT !.targetUser = rq.targetUser]

\* A RESTRICT check found a row (23503), or the statement was aborted: it
\* fails, nothing is deleted, its lock on the users row is gone, 500.
UserDeleteFails(r, rq) ==
  /\ req' = [req EXCEPT ![r] = DeleteRespond(rq, 500)]
  /\ locks' = [locks EXCEPT ![r] = {}]
  /\ UNCHANGED <<suggestion_votes, accounts>>

\* The statement holds the users row and waits for a row another session has
\* locked: the row of suggestion s, or (s = NULL) the locked vote rows of the
\* user.
UserDeleteWaits(r, rq, s) ==
  /\ req' = [req EXCEPT ![r] = [rq EXCEPT !.pc = "ud_wait", !.suggestionId = s]]
  /\ locks' = [locks EXCEPT ![r] = {UserRowX(rq.targetUser)}]
  /\ UNCHANGED <<suggestion_votes, accounts>>

\* No RESTRICT reference: the users row is deleted and with it, ON DELETE
\* CASCADE, the user's user_developer_stacks, project_members and
\* suggestion_votes rows; rowCount 1: 200.  The counters of the suggestions
\* the user voted on are not touched.
UserDeleteCascade(r, rq) ==
  LET u == rq.targetUser IN
  /\ users' = users \ {u}
  /\ project_members' = {m \in project_members : m[2] # u}
  /\ user_developer_stacks' = {x \in user_developer_stacks : x[1] # u}
  /\ UNCHANGED <<created, nextUser>>
  /\ suggestion_votes' =
       [i \in {j \in DOMAIN suggestion_votes : suggestion_votes[j].user_id # u}
          |-> suggestion_votes[i]]
  /\ locks' = [locks EXCEPT ![r] = {}]
  /\ req' = [req EXCEPT ![r] = DeleteRespond(rq, 200)]

\* The statement has the users row; the referential actions run in the order
\* the tables were created (user_developer_stacks, projects, project_members,
\* suggestions, backlog_items, backlog_tasks, suggestion_votes).  A RESTRICT
\* check selects one referencing row FOR KEY SHARE and fails when it has it:
\* for suggestions that is the first row of the author the scan meets, any of
\* them, and the check waits while a vote or a promotion holds it; the cascade
\* on suggestion_votes waits for the vote rows open transactions have locked.
UserDeleteChecks(r, rq) ==
  LET u == rq.targetUser IN
  IF CreatedProject(u)
  THEN UserDeleteFails(r, rq)
  ELSE IF Authored(u) # {}
  THEN \E s \in Authored(u) :
         IF SugHolders(r, s) = {}
         THEN UserDeleteFails(r, rq)
         ELSE UserDeleteWaits(r, rq, s)
  ELSE IF BacklogReferenced(u)
  THEN UserDeleteFails(r, rq)
  ELSE IF LockedVoteRows(r, u) # {}
  THEN UserDeleteWaits(r, rq, NULL)
  ELSE UserDeleteCascade(r, rq)

\* The request arrives and the handler runs its one statement, DELETE FROM
\* users WHERE id = $1, until the statement has finished or waits for a row
\* while it holds the users row.  rowCount 0: 404.  The statement first waits
\* for the users row itself (an open transaction has inserted a row that
\* names the user, or another DELETE holds the row).
UserDelete(r, actors, targets) ==
  /\ CanStart(r)
  /\ \E a \in actors, u \in targets :
       LET rq == AdminAdmit([IdleReq EXCEPT !.op = "user_delete", !.userId = a,
                                            !.targetUser = u],
                            "ud_delete") IN
       IF rq.pc = "done"
       THEN /\ req' = [req EXCEPT ![r] = rq]
            /\ UNCHANGED <<suggestion_votes, accounts, locks>>
       ELSE IF u \notin users
       THEN /\ req' = [req EXCEPT ![r] = AdminRespond(rq, 404)]
            /\ UNCHANGED <<suggestion_votes, accounts, locks>>
       ELSE /\ ~UserKeyShared(r, u)
            /\ ~UserRowHeld(r, u)
            /\ UserDeleteChecks(r, rq)
  /\ UNCHANGED <<suggestions, backlog_items, ids, lastCast, tasks>>

\* The row the statement waited for is free, and the check fetches it again
\* (READ COMMITTED: the latest committed version).  The suggestion is still
\* there, and names its author as before (no statement changes
\* created_by_user_id): the RESTRICT check has its row and fails.  The
\* suggestion was deleted meanwhile (DELETE /projects/:projectId/suggestions/
\* :suggestionId, once the vote or promotion had ended): the fetch returns no
\* row and the scan goes on to the author's other suggestions, then to the
\* backlog references and the cascade, as in UserDeleteChecks (no project or
\* suggestion came to name the user since: an INSERT that names the user waits
\* for the users row the statement holds).  The vote rows are free: the
\* cascade deletes them and the statement succeeds.
UserDeleteResume(r) ==
  /\ req[r].pc = "ud_wait"
  /\ IF req[r].suggestionId # NULL
     THEN /\ SugHolders(r, req[r].suggestionId) = {}
          /\ IF req[r].suggestionId \in Authored(req[r].targetUser)
             THEN UserDeleteFails(r, req[r])
             ELSE UserDeleteChecks(r, req[r])
     ELSE /\ LockedVoteRows(r, req[r].targetUser) = {}
          /\ UserDeleteCascade(r, req[r])
  /\ UNCHANGED <<suggestions, backlog_items, ids, lastCast, tasks>>

\* The users row the next statement of request o locks FOR KEY SHARE while its
\* transaction holds row locks (NULL: none): the INSERT of a vote row that is
\* not there yet, the INSERT of the backlog item of a promotion.
NeedsUserRow(o) ==
  IF \/ /\ req[o].pc = "v_upsert"
        /\ VoteRowsOf(suggestion_votes, req[o].projectId, req[o].suggestionId,
                      req[o].userId) = {}
     \/ /\ req[o].pc = "p_insert"
        /\ ~UniqueViolation(backlog_items, req[o].projectId, req[o].suggestionId)
  THEN req[o].userId
  ELSE NULL

\* Session a waits for a row lock that session b holds: a DELETE FROM users
\* for the suggestion row or the vote rows, an INSERT for the users row.  (The
\* other waits of the handlers are for rows of sessions that wait for none of
\* these.)
WaitsFor(a, b) ==
  /\ a # b
  /\ \/ /\ req[a].pc = "ud_wait" /\ req[a].suggestionId # NULL
        /\ b \in SugHolders(a, req[a].suggestionId)
     \/ /\ req[a].pc = "ud_wait" /\ req[a].suggestionId = NULL
        /\ \E row \in locks[b] :
             row[1] = "suggestion_votes" /\ row[3] = req[a].targetUser
     \/ /\ NeedsUserRow(a) # NULL
        /\ UserRowX(NeedsUserRow(a)) \in locks[b]

\* The sessions reached from those of `from` by at most n waits.
RECURSIVE WaitChain(_, _)
WaitChain(from, n) ==
  IF n = 0 THEN from
  ELSE WaitChain(from \cup {b \in Req : \E a \in from : WaitsFor(a, b)}, n - 1)

\* Session r is on a cycle of waits.
Deadlocked(r) == \E b \in Req : WaitsFor(r, b) /\ r \in WaitChain({b}, MaxReq)

\* PostgreSQL's deadlock detector: a session that has waited deadlock_timeout
\* looks for a cycle of waits and, on one, aborts its own statement (40P01);
\* which session of the cycle that is depends on when each began to wait.  An
\* aborted DELETE FROM users has deleted nothing and answers 500; an aborted
\* castVote or promotion goes to its catch: ROLLBACK, throw e, 500, nothing
\* written.  (The cycle: the DELETE holds the users row of an author and waits
\* for the author's suggestion row; the author's own first vote on it, or the
\* author's own promotion of it, holds that row and waits for the users row.)
\* Only the requests of Spec close such a cycle: on the backlog of TaskSpec
\* and LiveSpec every suggestion is user 2's, whose role does not promote and
\* who casts no vote there, so the step belongs to Next alone.
DeadlockAbort(r) ==
  /\ req[r].pc \in {"ud_wait", "v_upsert", "p_insert"}
  /\ Deadlocked(r)
  /\ locks' = [locks EXCEPT ![r] = {}]
  /\ req' = [req EXCEPT ![r] =
               CASE req[r].op = "user_delete" -> DeleteRespond(req[r], 500)
                 [] req[r].op = "promote" -> PromoteRespond(r, 500, NULL)
                 [] OTHER -> Respond(r, 500)]
  /\ UNCHANGED <<tables, ids, lastCast, tasks, accounts>>

(* POST /admin/users *)

\* The bodies tried: a developer, an admin and a plain user, each with the
\* stacks ["backend"]; name, email and password are the same in all of them.
UserBodies == {[role |-> "developer", stacks |-> {"backend"}],
               [role |-> "admin", stacks |-> {"backend"}],
               [role |-> "user", stacks |-> {"backend"}]}

\* users.email is unique: a row with the email of the bodies is there (every
\* created account has it, no seeded one).
EmailTaken == Created \cap users # {}

\* const finalStacks = body.role === "developer" || body.role === "admin"
\*   ? body.stacks ?? [] : []
finalStacks(role, stacks) == IF role \in {"developer", "admin"} THEN stacks ELSE {}

\* The request arrives, the body is parsed and the handler awaits bcrypt.hash.
StartUserCreate(r, actors, bodies) ==
  /\ CanStart(r)
  /\ Cardinality({o \in Req : req[o].op = "user_create"}) < MaxCreated
  /\ \E a \in actors, body \in bodies :
       req' = [req EXCEPT ![r] =
                 AdminAdmit([IdleReq EXCEPT !.op = "user_create", !.userId = a,
                                            !.role = body.role,
                                            !.stacks = body.stacks],
                            "uc_insert")]
  /\ UNCHANGED <<tables, ids, locks, lastCast, tasks, accounts>>

\* INSERT INTO users (name, email, role, password_hash) ... RETURNING id, ...
\* (autocommit), the id a fresh one; 23505 on users.email: 409.  Without
\* finalStacks the answer is 201 at once.
UserCreateInsert(r) ==
  LET u == nextUser
      codes == finalStacks(req[r].role, req[r].stacks) IN
  /\ req[r].pc = "uc_insert"
  /\ IF EmailTaken
     THEN /\ req' = [req EXCEPT ![r] = Respond(r, 409)]
          /\ UNCHANGED <<users, created, nextUser>>
     ELSE /\ users' = users \cup {u}
          /\ nextUser' = nextUser + 1
          /\ created' = created @@ (u :> req[r].role)
          /\ req' = [req EXCEPT ![r] =
                       IF codes = {}
                       THEN [Respond(r, 201) EXCEPT !.targetUser = u]
                       ELSE [req[r] EXCEPT !.pc = "uc_delete", !.targetUser = u,
                                           !.stacks = codes]]
  /\ UNCHANGED <<tables, ids, locks, lastCast, tasks, project_members,
                 user_developer_stacks>>

\* setUserStacks: pool.connect, BEGIN, DELETE FROM user_developer_stacks WHERE
\* user_id = $1.  The id is new and only this handler writes stack rows for
\* it: the DELETE finds no row.
UserCreateDelete(r) ==
  /\ req[r].pc = "uc_delete"
  /\ req' = [req EXCEPT ![r].pc = "uc_stack"]
  /\ UNCHANGED <<tables, ids, locks, lastCast, tasks, accounts>>

\* for (const code of stackCodes): SELECT id FROM developer_stacks WHERE code =
\* $1 (every code of the body schema has a row), INSERT INTO
\* user_developer_stacks (user_id, stack_id); the bodies carry one code.  The
\* INSERT takes the key-share lock on the users row; the row is gone (23503):
\* ROLLBACK, and the error leaves the handler as 500.
UserCreateStack(r) ==
  /\ req[r].pc = "uc_stack"
  /\ ~UserRowHeld(r, req[r].targetUser)
  /\ IF UserExists(req[r].targetUser)
     THEN /\ locks' = [locks EXCEPT ![r] = @ \cup {UserRow(req[r].targetUser)}]
          /\ req' = [req EXCEPT ![r].pc = "uc_commit"]
     ELSE /\ req' = [req EXCEPT ![r] = Respond(r, 500)]
          /\ UNCHANGED locks
  /\ UNCHANGED <<tables, ids, lastCast, tasks, accounts>>

\* COMMIT: the stack rows are there and the lock is released; then 201 with
\* the user row.
UserCreateCommit(r) ==
  /\ req[r].pc = "uc_commit"
  /\ user_developer_stacks' =
       user_developer_stacks \cup ({req[r].targetUser} \X req[r].stacks)
  /\ locks' = [locks EXCEPT ![r] = {}]
  /\ req' = [req EXCEPT ![r] =
               [Respond(r, 201) EXCEPT !.targetUser = req[r].targetUser]]
  /\ UNCHANGED <<tables, ids, lastCast, tasks, users, project_members, created,
                 nextUser>>

(* PATCH /admin/users/:userId *)

\* The request arrives and the handler runs SELECT id FROM users WHERE id = $1:
\* no row: 404; otherwise it goes on to bcrypt.hash and its UPDATE.
StartUserPatch(r, actors, targets) ==
  /\ CanStart(r)
  /\ \E a \in actors, u \in targets :
       LET rq == AdminAdmit([IdleReq EXCEPT !.op = "user_patch", !.userId = a,
                                            !.targetUser = u],
                            "up_update") IN
       req' = [req EXCEPT ![r] =
                 IF rq.pc = "done" \/ u \in users THEN rq ELSE AdminRespond(rq, 404)]
  /\ UNCHANGED <<tables, ids, locks, lastCast, tasks, accounts>>

\* UPDATE users SET ..., password_hash = COALESCE($X, password_hash), ...: the
\* statement is not valid SQL, so it fails whatever the body and the row; the
\* error is not 23505 and leaves the handler as 500.  Nothing is written.
UserPatchUpdate(r) ==
  /\ req[r].pc = "up_update"
  /\ req' = [req EXCEPT ![r] = Respond(r, 500)]
  /\ UNCHANGED <<tables, ids, locks, lastCast, tasks, accounts>>

\* The statements of the admin handlers that follow an await.
adminRoutes(r) ==
  \/ MemberAddInsert(r)
  \/ UserDeleteResume(r)
  \/ UserCreateInsert(r) \/ UserCreateDelete(r) \/ UserCreateStack(r)
  \/ UserCreateCommit(r)

\* An admin request arrives and its handler runs to its first await.
StartAdminBy(r, actors, adds, dels, targets) ==
  \/ StartMemberAdd(r, actors, adds)
  \/ StartMemberAddBody(r, actors, adds)
  \/ MemberDelete(r, actors, dels)
  \/ UserDelete(r, actors, targets)
  \/ StartUserCreate(r, actors, UserBodies)

\* The admin requests of the seeded callers and of the created accounts, on
\* the memberships named and on the accounts of user 1, user 2 and the
\* created ones.
StartAdmin(r) ==
  \/ StartAdminBy(r, AdminActors \cup Created, MemberInputs \cup NewMembers,
                  MemberInputs \cup NewMembers, Users \cup Created)
  \/ StartUserPatch(r, AdminActors \cup Created, Users \cup Created)

\* The admin requests that change the accounts: sent by an admin, adding a
\* membership that is not seeded, removing one that is (PATCH /admin/users
\* changes nothing and is not among them).
Admins == {a \in AdminActors \cup Created : RoleOf(a) = "admin"}
Unseeded == MemberInputs \ InitialMembers
Seeded == MemberInputs \cap InitialMembers

StartAdminChange(r) ==
  StartAdminBy(r, Admins, Unseeded \cup NewMembers, Seeded \cup NewMembers,
               Users \cup Created)

SugIds == 1..(MaxReq + 1)

\* A database holding one freshly created suggestion (project 1, author user 2),
\* no votes and no backlog items; no request has arrived.
Init ==
  /\ suggestions = (1 :> NewSuggestion(1, 2, 1, 1))
  /\ suggestion_votes = <<>>
  /\ backlog_items = <<>>
  /\ nextSug = 2
  /\ nextVote = 1
  /\ nextBacklog = 1
  /\ locks = [r \in Req |-> {}]
  /\ req = [r \in Req |-> IdleReq]
  /\ lastCast = [k \in SugIds \X Voters |-> {}]
  /\ backlog_tasks = <<>>
  /\ nextTask = 1
  /\ users = InitialUsers
  /\ user_developer_stacks = InitialStacks
  /\ created = <<>>
  /\ nextUser = 5
  /\ project_members = InitialMembers

Next ==
  \E r \in Req :
    \/ StartCreate(r) \/ CreateInsert(r)
    \/ StartEdit(r) \/ EditCheck(r) \/ EditUpdate(r)
    \/ StartDelete(r) \/ DeleteCheck(r) \/ DeleteExec(r)
    \/ StartVote(r) \/ VoteSelectSuggestion(r) \/ VoteSelectOld(r) \/ VoteUpsert(r)
    \/ VoteAggregate(r) \/ VoteUpdate(r) \/ VoteCommit(r)
    \/ StartPromote(r) \/ pull_to_backlog(r)
    \/ StartBacklog(r) \/ BacklogInsert(r)
    \/ StartAdminChange(r) \/ adminRoutes(r)
    \/ DeadlockAbort(r)

Spec == Init /\ [][Next]_vars

----------------------------------------------------------------------------
(* The backlog under work: the database after suggestion 1 was promoted to   *)
(* backlog item 1, the admin gave the item two frontend tasks and an infra    *)
(* task and closed the first one (progress 33 on both rows), and user 2      *)
(* posted suggestion 2.  Requests: the task routes and pull-to-backlog.      *)

\* Number of concurrent requests on the backlog.
MaxTaskReq == 2

TaskReq == 1..MaxTaskReq

\* The three tables of that database.
InitialSuggestions ==
  (1 :> [MarkPromoted((1 :> NewSuggestion(1, 2, 1, 1)), 1, 1, 1)[1]
           EXCEPT !.progress_percent = Progress(1, 3)]) @@
  (2 :> NewSuggestion(1, 2, 1, 1))

InitialItems ==
  (1 :> [NewBacklogItem(1, "suggestion", 1, 1, 1, 3)
           EXCEPT !.progress_percent = Progress(1, 3)])

InitialTasks ==
  (1 :> [UpdatedTask(NewTask(1, 1, "frontend", 3), TRUE, TRUE)
           EXCEPT !.done_at = earlier]) @@
  (2 :> NewTask(1, 1, "frontend", 3)) @@
  (3 :> NewTask(1, 1, "infra", 3))

\* The accounts added to the seeded ones before the requests of a run: none,
\* or account 5, created by POST /admin/users as a developer or as an admin
\* with the stacks ["backend"] and made a member of project 1.
InitialCreated == {<<>>, (5 :> "developer"), (5 :> "admin")}

TaskInit ==
  /\ suggestions = InitialSuggestions
  /\ suggestion_votes = <<>>
  /\ backlog_items = InitialItems
  /\ backlog_tasks = InitialTasks
  /\ nextSug = 3
  /\ nextVote = 1
  /\ nextBacklog = 2
  /\ nextTask = 4
  /\ locks = [r \in Req |-> {}]
  /\ req = [r \in Req |-> IdleReq]
  /\ lastCast = [k \in SugIds \X Voters |-> {}]
  /\ \E c \in InitialCreated :
       /\ created = c
       /\ users = InitialUsers \cup DOMAIN c
       /\ user_developer_stacks = InitialStacks \cup ((DOMAIN c) \X {"backend"})
       /\ project_members = InitialMembers \cup ({1} \X (DOMAIN c))
       /\ nextUser = 5 + Cardinality(DOMAIN c)

TaskNext ==
  \E r \in TaskReq :
    \/ StartTaskCreate(r) \/ TaskCreateStack(r) \/ TaskCreateExists(r)
    \/ TaskCreateInsert(r)
    \/ StartTaskUpdate(r) \/ StartTaskDelete(r) \/ TaskLookup(r) \/ TaskStackCheck(r)
    \/ TaskUpdateWrite(r) \/ TaskUpdateReread(r) \/ TaskDeleteWrite(r)
    \/ recalcProgress(r)
    \/ StartPromoteBy(r, Actors \cup Created) \/ pull_to_backlog(r) \/ PromoteFail(r)
    \/ StartAdmin(r) \/ adminRoutes(r) \/ UserPatchUpdate(r)

TaskSpec == TaskInit /\ [][TaskNext]_vars

----------------------------------------------------------------------------
(* recalcProgress called on its own, as the seed script does after it wrote  *)
(* the tasks of a promoted item with SQL: the item has total tasks of which  *)
(* the first done are closed, and both progress columns still hold 0.  The   *)
(* call names project 1 or 2 and backlog item 1 or 2; only item 1 of project *)
(* 1 exists.                                                                 *)

ProgressInit ==
  \E total \in 0..MaxTotal, done \in 0..MaxTotal, p \in Projects, b \in 1..2 :
    /\ done <= total
    /\ suggestions = (1 :> MarkPromoted((1 :> NewSuggestion(1, 2, 1, 1)), 1, 1, 1)[1])
    /\ suggestion_votes = <<>>
    /\ backlog_items = (1 :> NewBacklogItem(1, "suggestion", 1, 1, 1, 3))
    /\ backlog_tasks =
         [t \in 1..total |-> UpdatedTask(NewTask(1, 1, "frontend", 3), TRUE, t <= done)]
    /\ nextSug = 2
    /\ nextVote = 1
    /\ nextBacklog = 2
    /\ nextTask = total + 1
    /\ locks = [r \in Req |-> {}]
    /\ req = [r \in Req |->
                IF r = 1 THEN [IdleReq EXCEPT !.op = "recalc", !.pc = "rc_count",
                                              !.projectId = p, !.backlogItemId = b]
                ELSE IdleReq]
    /\ lastCast = [k \in SugIds \X Voters |-> {}]
    /\ users = InitialUsers
    /\ user_developer_stacks = InitialStacks
    /\ created = <<>>
    /\ nextUser = 5
    /\ project_members = InitialMembers

ProgressNext == recalcProgress(1)

ProgressSpec == ProgressInit /\ [][ProgressNext]_vars

----------------------------------------------------------------------------
(* The same backlog with votes: castVote, promote, the task routes and their *)
(* recalcProgress run concurrently, and every handler that can take its next *)
(* step eventually takes it (the event loop resumes an await whose query has *)
(* returned, and PostgreSQL wakes a waiter when the lock holder's            *)
(* transaction ends).                                                        *)

\* The next statement of request r's handler, whatever the route; the fault
\* RecalcFail is no step the scheduler owes.
Handler(r) ==
  \/ VoteSelectSuggestion(r) \/ VoteSelectOld(r) \/ VoteUpsert(r)
  \/ VoteAggregate(r) \/ VoteUpdate(r) \/ VoteCommit(r)
  \/ pull_to_backlog(r)
  \/ TaskCreateStack(r) \/ TaskCreateExists(r) \/ TaskCreateInsert(r)
  \/ TaskLookup(r) \/ TaskStackCheck(r) \/ TaskUpdateWrite(r) \/ TaskUpdateReread(r)
  \/ TaskDeleteWrite(r)
  \/ RecalcCount(r) \/ RecalcUpdateItem(r) \/ RecalcSelectLink(r)
  \/ RecalcUpdateSuggestion(r) \/ RecalcCommit(r)
  \/ adminRoutes(r)

\* The requests sent: those that pass the middleware chain and contend for
\* the same rows: votes of user 1 and promotions on the suggestions of project
\* 1, task mutations on the tasks of backlog item 1 (with them, the admin's
\* requests on the accounts of user 1, the voter, and user 2, the author of
\* the suggestions, and on the membership of user 1 in project 1).
Contending(rq) ==
  /\ rq.pc # "done"
  /\ rq.projectId = 1
  /\ rq.op = "vote" => rq.userId = 1 /\ rq.vote = 1 /\ rq.suggestionId \in DOMAIN suggestions
  /\ rq.op = "promote" => rq.suggestionId \in DOMAIN suggestions
  /\ rq.op \in {"task_create", "task_update", "task_delete"} => rq.backlogItemId = 1
  /\ rq.op \in {"task_update", "task_delete"} => rq.taskId \in DOMAIN backlog_tasks

LiveNext ==
  \E r \in TaskReq :
    \/ StartVote(r) /\ Contending(req'[r])
    \/ StartPromote(r) /\ Contending(req'[r])
    \/ StartTaskCreate(r) /\ Contending(req'[r])
    \/ StartTaskUpdate(r) /\ Contending(req'[r])
    \/ StartTaskDelete(r) /\ Contending(req'[r])
    \/ StartAdminBy(r, Admins, Seeded, Seeded, Users)
    \/ Handler(r)
    \/ RecalcFail(r)

\* The backlog with the seeded accounts only.
LiveInit == TaskInit /\ created = <<>>

LiveSpec ==
  LiveInit /\ [][LiveNext]_vars /\ \A r \in TaskReq : WF_vars(Handler(r))

----------------------------------------------------------------------------
(* Properties *)

\* Request r takes the step.
Step(r) == req'[r] # req[r]

\* The pull-to-backlog requests on suggestion s of project p that passed the
\* middleware chain (in flight or answered).
PromotesOf(p, s) ==
  {r \in Req : req[r].op = "promote" /\ req[r].projectId = p /\ req[r].suggestionId = s}

\* No DELETE /admin/users has had the users row of account u: none waits with
\* it, none was answered with its result (200, or 500 with the account kept).
AccountUntouched(u) ==
  \A o \in Req : req[o].op = "user_delete" => req[o].targetUser # u

C2_OneItemPerSuggestion ==
  \A b1, b2 \in DOMAIN backlog_items :
    (/\ backlog_items[b1].suggestion_id # NULL
     /\ backlog_items[b1].suggestion_id = backlog_items[b2].suggestion_id
     /\ backlog_items[b1].project_id = backlog_items[b2].project_id)
    => b1 = b2

\* A suggestion has its backlog item, a manual item exists beside it, and a
\* further promotion of the same suggestion was refused.
C2_Witness ==
  \E b1, b2 \in DOMAIN backlog_items :
    /\ backlog_items[b1].suggestion_id # NULL
    /\ backlog_items[b2].suggestion_id = NULL
    /\ \E r \in PromotesOf(backlog_items[b1].project_id, backlog_items[b1].suggestion_id) :
         req[r].status = 409

\* The voters whose latest committed cast on suggestion s has value x.
LatestVoters(s, x) == {u \in Voters : lastCast[<<s, u>>] = {x}}

\* Every user who cast a vote on suggestion s still has an account.
VotersKept(s) == \A u \in Voters : lastCast[<<s, u>>] # {} => u \in users

\* C3: after every committed cast, for every suggestion, score = upvotes_count
\* - downvotes_count, and, when the voters of the suggestion all still have
\* their accounts, upvotes_count is the number of voters whose latest vote is
\* 1 and downvotes_count the number of voters whose latest vote is -1.
C3_VoteConsistency ==
  \A s \in DOMAIN suggestions :
    /\ suggestions[s].score =
         suggestions[s].upvotes_count - suggestions[s].downvotes_count
    /\ VotersKept(s) =>
         /\ suggestions[s].upvotes_count = Cardinality(LatestVoters(s, 1))
         /\ suggestions[s].downvotes_count = Cardinality(LatestVoters(s, -1))

\* One voter's latest vote is 1, the other's is -1, and one of them cast twice:
\* three casts were committed on the suggestion and its tallies are 1 up, 1 down.
C3_Witness ==
  \E s \in DOMAIN suggestions :
    /\ suggestions[s].upvotes_count = 1
    /\ suggestions[s].downvotes_count = 1
    /\ suggestions[s].score = 0
    /\ \A r \in Req : req[r].op = "vote" /\ req[r].status = 200

\* suggestion_votes holds a row with key (p, s, u) and vote x.
HasVote(votes, p, s, u, x) ==
  \E i \in DOMAIN votes :
    votes[i] = [project_id |-> p, suggestion_id |-> s, user_id |-> u, vote |-> x]

\* C4: casting the value that is already the voter's recorded vote changes
\* neither the tallies nor the vote rows, and the answer has old_vote = my_vote
\* (on a suggestion whose voters all still have their accounts).
C4_VoteIdempotent ==
  [][\A r \in Req :
       (/\ req[r].pc = "v_commit"
        /\ Step(r)
        /\ HasVote(suggestion_votes, req[r].projectId, req[r].suggestionId,
                   req[r].userId, req[r].vote)
        /\ VotersKept(req[r].suggestionId))
       => /\ suggestions' = suggestions
          /\ suggestion_votes' = suggestion_votes
          /\ req'[r].status = 200
          /\ req'[r].oldVote = req'[r].vote]_vars

\* A voter cast 1 and then cast 1 again: the second answer has old_vote = my_vote = 1.
C4_Witness ==
  \E r1, r2 \in Req :
    /\ r1 # r2
    /\ req[r1].op = "vote" /\ req[r1].status = 200 /\ req[r1].vote = 1 /\ req[r1].oldVote = 0
    /\ req[r2].op = "vote" /\ req[r2].status = 200 /\ req[r2].vote = 1 /\ req[r2].oldVote = 1
    /\ nextVote = 2

\* The key of a vote row.
VoteKey(row) == <<row.project_id, row.suggestion_id, row.user_id>>

\* C5: there is at most one vote row per (project, suggestion, voter); a voter's
\* first cast creates the row, every later cast overwrites its vote in place,
\* and no step of a cast removes a row or touches another voter's row.
C5_OneRowPerVoter ==
  [][/\ \A i, j \in DOMAIN suggestion_votes' :
          VoteKey(suggestion_votes'[i]) = VoteKey(suggestion_votes'[j]) => i = j
     /\ \A r \in Req :
          (req[r].op = "vote" /\ Step(r)) =>
            LET key == <<req[r].projectId, req[r].suggestionId, req[r].userId>>
                mine == {i \in DOMAIN suggestion_votes : VoteKey(suggestion_votes[i]) = key}
                mine2 == {i \in DOMAIN suggestion_votes' : VoteKey(suggestion_votes'[i]) = key} IN
            IF req[r].pc = "v_commit"
            THEN /\ DOMAIN suggestion_votes \subseteq DOMAIN suggestion_votes'
                 /\ \A i \in DOMAIN suggestion_votes \ mine :
                      suggestion_votes'[i] = suggestion_votes[i]
                 /\ DOMAIN suggestion_votes' \ DOMAIN suggestion_votes \subseteq mine2
                 /\ mine # {} => mine2 = mine
                 /\ Cardinality(mine2) = 1
                 /\ \A i \in mine2 : suggestion_votes'[i].vote = req[r].vote
            ELSE suggestion_votes' = suggestion_votes]_vars

\* A voter cast twice with different values: one row was created, no second
\* one, and the row holds the second value.
C5_Witness ==
  \E r1, r2 \in Req :
    /\ r1 # r2
    /\ req[r1].op = "vote" /\ req[r1].status = 200 /\ req[r1].oldVote = 0 /\ req[r1].vote = 1
    /\ req[r2].op = "vote" /\ req[r2].status = 200 /\ req[r2].oldVote = 1 /\ req[r2].vote = -1
    /\ nextVote = 2
    /\ DOMAIN suggestion_votes = {1}
    /\ suggestion_votes[1].vote = -1

\* C6: a cast on a suggestion id that does not exist in the project is answered
\* 404 and the suggestions and the vote rows stay as they were.
C6_VoteNotFound ==
  [][\A r \in Req :
       (/\ req[r].pc = "v_select"
        /\ Step(r)
        /\ ~(/\ req[r].suggestionId \in DOMAIN suggestions
             /\ suggestions[req[r].suggestionId].project_id = req[r].projectId))
       => /\ req'[r].pc = "done"
          /\ req'[r].status = 404
          /\ locks'[r] = {}
          /\ UNCHANGED tables]_vars

\* A cast was answered 404 while a suggestion exists (in another project or
\* under another id).
C6_Witness ==
  /\ \E r \in Req : req[r].op = "vote" /\ req[r].pc = "done" /\ req[r].status = 404
  /\ suggestions # <<>>

\* The backlog items a step creates.
CreatedItems == DOMAIN backlog_items' \ DOMAIN backlog_items

\* C7: a successful promote of suggestion S creates, in one commit, a backlog
\* item with origin 'suggestion', reference S, title = S.title, summary =
\* S.description, stage 'todo' and progress 0, and in the same step sets
\* S.status = in_progress, S.locked_at non-null and S.backlog_item_id to the new
\* id; in no state is only part of these writes visible (a suggestion carries a
\* backlog reference exactly when that item references it, and then it is stamped).
C7_PromoteAtomic ==
  [][/\ \A r \in Req :
          (Step(r) /\ req'[r].op = "promote" /\ req'[r].status = 201) =>
            LET b == req'[r].backlog
                S == req[r].suggestionId IN
            /\ CreatedItems = {b}
            /\ S \in DOMAIN suggestions
            /\ suggestions[S].backlog_item_id = NULL
            /\ backlog_items'[b] =
                 [project_id |-> req[r].projectId, origin_type |-> "suggestion",
                  suggestion_id |-> S, title |-> suggestions[S].title,
                  summary |-> suggestions[S].description, stage |-> "todo",
                  progress_percent |-> 0, created_by_user_id |-> req[r].userId]
            /\ suggestions' = [suggestions EXCEPT ![S].status = "in_progress",
                                                  ![S].locked_at = now,
                                                  ![S].backlog_item_id = b]
            /\ suggestions'[S].locked_at # NULL
     /\ \A b \in CreatedItems :
          backlog_items'[b].origin_type = "suggestion" =>
            \E r \in Req : Step(r) /\ req'[r].status = 201 /\ req'[r].backlog = b
     /\ \A S \in DOMAIN suggestions' :
          suggestions'[S].backlog_item_id # NULL =>
            /\ suggestions'[S].backlog_item_id \in DOMAIN backlog_items'
            /\ backlog_items'[suggestions'[S].backlog_item_id].suggestion_id = S
            /\ suggestions'[S].locked_at # NULL
     /\ \A b \in DOMAIN backlog_items' :
          backlog_items'[b].suggestion_id # NULL =>
            /\ backlog_items'[b].suggestion_id \in DOMAIN suggestions'
            /\ suggestions'[backlog_items'[b].suggestion_id].backlog_item_id = b]_vars

\* A suggestion whose title was edited to 2 was then promoted: the item carries
\* title 2 and summary 1, and the suggestion is in progress, stamped and linked.
C7_Witness ==
  \E r \in Req :
    /\ req[r].op = "promote" /\ req[r].status = 201
    /\ req[r].backlog \in DOMAIN backlog_items
    /\ backlog_items[req[r].backlog].title = 2
    /\ backlog_items[req[r].backlog].summary = 1
    /\ req[r].suggestionId \in DOMAIN suggestions
    /\ suggestions[req[r].suggestionId].status = "in_progress"
    /\ suggestions[req[r].suggestionId].backlog_item_id = req[r].backlog

\* C8: promote answers 409 when the suggestion already has a backlog item and
\* 404 when the suggestion does not exist in the project; in both cases no
\* backlog item is created and no suggestion field changes.
C8_PromoteRefused ==
  [][\A r \in Req :
       (req[r].op = "promote" /\ req[r].pc = "p_select" /\ Step(r)) =>
         LET S == req[r].suggestionId
             inProject == /\ S \in DOMAIN suggestions
                          /\ suggestions[S].project_id = req[r].projectId IN
         /\ ~inProject =>
              /\ req'[r].pc = "done" /\ req'[r].status = 404
              /\ UNCHANGED <<tables, nextBacklog>>
         /\ (inProject /\ suggestions[S].backlog_item_id # NULL) =>
              /\ req'[r].pc = "done" /\ req'[r].status = 409
              /\ UNCHANGED <<tables, nextBacklog>>
              /\ locks'[r] = {}]_vars

\* One promote was answered 409 (the suggestion had its item) and another 404
\* (no such suggestion in the project); one backlog item exists.
C8_Witness ==
  /\ \E r \in Req : req[r].op = "promote" /\ req[r].status = 409
  /\ \E r \in Req : req[r].op = "promote" /\ req[r].status = 404
  /\ Cardinality(DOMAIN backlog_items) = 1

\* C9: promotion is one-way and one-time: once a suggestion's backlog_item_id is
\* set, in every later state the suggestion still holds the same backlog item id
\* (never cleared, never replaced), and no later promote on it succeeds.
C9_PromotionOneWay ==
  [][\A S \in DOMAIN suggestions :
       suggestions[S].backlog_item_id # NULL =>
         /\ S \in DOMAIN suggestions'
         /\ suggestions'[S].backlog_item_id = suggestions[S].backlog_item_id
         /\ \A r \in Req :
              (Step(r) /\ req'[r].op = "promote" /\ req[r].suggestionId = S)
              => req'[r].status # 201]_vars

\* C10: in every state after a suggestion's promotion has committed, its title
\* and description are the ones it had when the promotion committed, also when
\* the author's edit runs concurrently with the promote.
C10_PromotedContentImmutable ==
  [][\A S \in DOMAIN suggestions :
       (suggestions[S].backlog_item_id # NULL /\ S \in DOMAIN suggestions') =>
         /\ suggestions'[S].title = suggestions[S].title
         /\ suggestions'[S].description = suggestions[S].description]_vars

\* C11: a promoted suggestion is never deleted: in every state every backlog
\* item created by promotion still references its suggestion, and that
\* suggestion row is present and points back at the item.
C11_PromotedNeverDeleted ==
  \A b \in DOMAIN backlog_items :
    backlog_items[b].origin_type = "suggestion" =>
      /\ backlog_items[b].suggestion_id \in DOMAIN suggestions
      /\ suggestions[backlog_items[b].suggestion_id].backlog_item_id = b

\* Suggestion S of request r is a row of the request's project.
Targets(r, S) ==
  /\ S = req[r].suggestionId
  /\ S \in DOMAIN suggestions
  /\ suggestions[S].project_id = req[r].projectId

\* C12: for a promoted suggestion an edit or delete request that passed the
\* membership check is answered 409 whoever the actor is, author or not, and
\* the suggestion is left unchanged.
C12_PromotedConflictAnyActor ==
  [][\A r \in Req, S \in DOMAIN suggestions :
       (/\ req[r].pc \in {"e_check", "d_check"}
        /\ Step(r)
        /\ Targets(r, S)
        /\ suggestions[S].backlog_item_id # NULL)
       => /\ req'[r].pc = "done"
          /\ req'[r].status = 409
          /\ UNCHANGED tables]_vars

\* C13: for an unpromoted suggestion, an edit or delete request of a project
\* member other than the author, the admin included, is answered 403 and leaves
\* the suggestion unchanged and present; the title and description of an
\* unpromoted suggestion change, and the row disappears, only in a step of a
\* request sent by its author.
C13_OnlyAuthorEdits ==
  [][/\ \A r \in Req, S \in DOMAIN suggestions :
          (/\ req[r].pc \in {"e_check", "d_check"}
           /\ Step(r)
           /\ Targets(r, S)
           /\ suggestions[S].backlog_item_id = NULL
           /\ suggestions[S].created_by_user_id # req[r].userId)
          => /\ req'[r].pc = "done"
             /\ req'[r].status = 403
             /\ UNCHANGED tables
     /\ \A S \in DOMAIN suggestions :
          (/\ suggestions[S].backlog_item_id = NULL
           /\ \/ S \notin DOMAIN suggestions'
              \/ suggestions'[S].title # suggestions[S].title
              \/ suggestions'[S].description # suggestions[S].description)
          => \E r \in Req :
               /\ Step(r)
               /\ req[r].op \in {"edit", "delete"}
               /\ Targets(r, S)
               /\ req[r].userId = suggestions[S].created_by_user_id]_vars

\* The admin's edit and the developer's delete of user 2's suggestion were
\* both answered 403; no suggestion was ever promoted and the suggestion is
\* present with its first title and description.
C13_Witness ==
  /\ \E r \in Req : req[r].op = "edit" /\ req[r].status = 403 /\ req[r].userId = 3
  /\ \E r \in Req : req[r].op = "delete" /\ req[r].status = 403 /\ req[r].userId = 1
  /\ nextBacklog = 1
  /\ nextSug = 2
  /\ 1 \in DOMAIN suggestions
  /\ suggestions[1].title = 1 /\ suggestions[1].description = 1

\* round-half-up(100 * done / total) in exact arithmetic, 0 for no tasks.
RoundHalfUp(done, total) ==
  IF total = 0 THEN 0 ELSE (200 * done + total) \div (2 * total)

\* C14: recalcProgress stores (and returns) round-half-up(100 * done / total)
\* for an item with total > 0 tasks of which done are done, and 0 for an item
\* without tasks; the value is an integer in 0..100.
C14_ProgressRounding ==
  \A r \in Req :
    (/\ req[r].op = "recalc" /\ req[r].pc = "done" /\ req[r].status = 200
     /\ req[r].projectId = 1 /\ req[r].backlogItemId = 1) =>
      LET total == Cardinality(TasksOf(backlog_tasks, 1, 1))
          done == Cardinality(DoneTasksOf(backlog_tasks, 1, 1)) IN
      /\ backlog_items[1].progress_percent = RoundHalfUp(done, total)
      /\ backlog_items[1].progress_percent \in 0..100
      /\ req[r].progress = backlog_items[1].progress_percent

\* C15: progress mirroring: in every committed state each backlog item that
\* references a suggestion has the progress_percent of that suggestion.
C15_ProgressMirrored ==
  \A b \in DOMAIN backlog_items :
    backlog_items[b].suggestion_id # NULL =>
      /\ backlog_items[b].suggestion_id \in DOMAIN suggestions
      /\ suggestions[backlog_items[b].suggestion_id].progress_percent =
           backlog_items[b].progress_percent

\* Two task requests were answered with success and the promoted item and its
\* suggestion both stand at 100.
C15_Witness ==
  /\ backlog_items[1].suggestion_id = 1
  /\ backlog_items[1].progress_percent = 100
  /\ suggestions[1].progress_percent = 100
  /\ \A r \in TaskReq : req[r].pc = "done" /\ req[r].status = 200

\* The routes that mutate tasks.
TaskOps == {"task_create", "task_update", "task_delete"}

\* C16: progress freshness: whenever every task request has returned (none in
\* flight; here: each answered with success), each item's stored
\* progress_percent is round(100 * done / total) over the tasks stored for it.
C16_ProgressFresh ==
  (\A r \in Req : /\ req[r].pc \in {"idle", "done"}
                  /\ req[r].status # 500)
  => \A b \in DOMAIN backlog_items :
       LET p == backlog_items[b].project_id IN
       backlog_items[b].progress_percent =
         RoundHalfUp(Cardinality(DoneTasksOf(backlog_tasks, p, b)),
                     Cardinality(TasksOf(backlog_tasks, p, b)))

\* C17: task mutations are all-or-nothing: when a task request is answered
\* with a failure, the tasks, the item's progress and the suggestion's progress
\* are as they were before the request (here: the request is the only one
\* sent, so before it the tables are the initial ones).
C17_TaskAllOrNothing ==
  (/\ req[1].op \in TaskOps
   /\ req[1].pc = "done"
   /\ req[1].status \notin {200, 201}
   /\ \A r \in Req \ {1} : req[r].pc = "idle")
  => /\ backlog_tasks = InitialTasks
     /\ backlog_items = InitialItems
     /\ suggestions = InitialSuggestions

\* The stack a step of request r checks or passes by: the stack of the body
\* at the stack check of a creation, the stack of the task read at the stack
\* check of a developer's update or delete, the stack of the task found by
\* the lookup of any other caller's update or delete.
StackOfRequest(r) ==
  IF req[r].pc \in {"tc_stack", "tu_stacks", "td_stacks"} THEN {req[r].stack}
  ELSE IF /\ req[r].pc \in {"tu_lookup", "td_lookup"}
          /\ RoleOf(req[r].userId) # "developer"
          /\ req[r].taskId \in DOMAIN backlog_tasks
          /\ backlog_tasks[req[r].taskId].project_id = req[r].projectId
          /\ backlog_tasks[req[r].taskId].backlog_item_id = req[r].backlogItemId
       THEN {backlog_tasks[req[r].taskId].stack}
  ELSE {}

\* C18: stack authorization: a developer whose stacks do not include K gets
\* 403 on creating a task with stack K and on updating or deleting a task
\* whose stack is K, and tasks and progress stay as they are; the admin's same
\* request passes the check whatever stacks the admin has, and is never
\* answered 403.
C18_StackAuthorization ==
  [][\A r \in Req, K \in Stacks :
       (Step(r) /\ K \in StackOfRequest(r)) =>
         /\ (RoleOf(req[r].userId) = "developer" /\ K \notin getUserStacks(req[r].userId))
            => /\ req'[r].pc = "done" /\ req'[r].status = 403
               /\ UNCHANGED <<tables, tasks>>
         /\ RoleOf(req[r].userId) = "admin"
            => req'[r].pc = CASE req[r].pc = "tc_stack" -> "tc_exists"
                              [] req[r].pc = "tu_lookup" -> "tu_write"
                              [] OTHER -> "td_write"]_vars

\* Developer 1, who has frontend and backend, was answered 403 on creating an
\* infra task, and admin 5, who has backend only, created an infra task (201).
C18_Witness ==
  /\ \E r \in TaskReq :
       req[r].op = "task_create" /\ req[r].status = 403 /\ req[r].userId = 1
  /\ \E r \in TaskReq : req[r].op = "task_create" /\ req[r].status = 201
  /\ \E t \in DOMAIN backlog_tasks \ DOMAIN InitialTasks :
       /\ backlog_tasks[t].stack = "infra"
       /\ backlog_tasks[t].created_by_user_id = 5
  /\ RoleOf(5) = "admin"
  /\ getUserStacks(5) = {"backend"}
  /\ getUserStacks(1) = {"frontend", "backend"}

\* C19: only developers and admins mutate tasks: a task request of a user or a
\* manager is answered 403 on arrival, whatever stacks the actor has, and
\* every step that changes a task or a progress value belongs to a request of
\* a developer or an admin.
C19_TaskRoles ==
  [][/\ \A r \in Req :
          (/\ req[r].pc = "idle"
           /\ req'[r].op \in TaskOps
           /\ RoleOf(req'[r].userId) \in {"user", "manager"})
          => /\ req'[r].pc = "done" /\ req'[r].status = 403
             /\ UNCHANGED <<tables, tasks>>
     /\ (\/ backlog_tasks' # backlog_tasks
         \/ \E b \in DOMAIN backlog_items :
              backlog_items'[b].progress_percent # backlog_items[b].progress_percent
         \/ \E S \in DOMAIN suggestions :
              suggestions'[S].progress_percent # suggestions[S].progress_percent)
        => \E r \in Req : /\ Step(r)
                          /\ req[r].op \in TaskOps
                          /\ RoleOf(req[r].userId) \in {"developer", "admin"}]_vars

\* The manager and the plain user each sent a task request that was answered
\* 403; tasks and progress are the initial ones.
C19_Witness ==
  /\ \E r \in TaskReq :
       req[r].op \in TaskOps /\ req[r].status = 403 /\ req[r].userId = 4
  /\ \E r \in TaskReq :
       req[r].op \in TaskOps /\ req[r].status = 403 /\ req[r].userId = 2
  /\ backlog_tasks = InitialTasks
  /\ backlog_items = InitialItems

\* C20: updateTask and deleteTask by a developer: when the task exists in the
\* named item and its stack is not among the developer's, the answer is 403,
\* never 404; the answer is 404 exactly when no such task exists in that
\* project and backlog item.
C20_ForbiddenNotHidden ==
  [][\A r \in Req :
       (Step(r) /\ RoleOf(req[r].userId) = "developer")
       => /\ req[r].pc \in {"tu_lookup", "td_lookup"}
             => LET t == req[r].taskId
                    exists ==
                      /\ t \in DOMAIN backlog_tasks
                      /\ backlog_tasks[t].project_id = req[r].projectId
                      /\ backlog_tasks[t].backlog_item_id = req[r].backlogItemId IN
                /\ req'[r].status = 404 <=> ~exists
                /\ exists => /\ req'[r].pc \in {"tu_stacks", "td_stacks"}
                             /\ req'[r].stack = backlog_tasks[t].stack
          /\ req[r].pc \in {"tu_stacks", "td_stacks"}
             => /\ req[r].stack \notin getUserStacks(req[r].userId)
                   => req'[r].pc = "done" /\ req'[r].status = 403
                /\ req'[r].status # 404]_vars

\* Developer 1's update of infra task 3 was answered 403 and the same
\* developer's delete of a task id that is not in the item 404.
C20_Witness ==
  /\ \E r \in TaskReq :
       req[r].op = "task_update" /\ req[r].status = 403 /\ req[r].userId = 1
  /\ \E r \in TaskReq : req[r].op = "task_delete" /\ req[r].status = 404
  /\ backlog_tasks = InitialTasks
  /\ 1 \in users

\* Every task has done_at exactly when it is done.
DoneAtConsistent ==
  \A t \in DOMAIN backlog_tasks :
    backlog_tasks[t].done_at # NULL <=> backlog_tasks[t].is_done

\* What a step does to done_at of the tasks it keeps, and what the UPDATE of
\* request r does to its task.
DoneAtSteps ==
  /\ \A t \in DOMAIN backlog_tasks \cap DOMAIN backlog_tasks' :
       LET old == backlog_tasks[t]
           new == backlog_tasks'[t] IN
       /\ (~old.is_done /\ new.is_done) => new.done_at = now
       /\ ~new.is_done => new.done_at = NULL
       /\ (old.is_done /\ new.is_done) => new.done_at = old.done_at
  /\ \A r \in Req :
       (req[r].pc = "tu_write" /\ Step(r) /\ req[r].taskId \in DOMAIN backlog_tasks)
       => LET old == backlog_tasks[req[r].taskId]
              new == backlog_tasks'[req[r].taskId] IN
          /\ new.is_done = (IF req[r].hasDone THEN req[r].isDone ELSE old.is_done)
          /\ ~req[r].hasDone => new.done_at = old.done_at
  /\ \A t \in DOMAIN backlog_tasks' \ DOMAIN backlog_tasks :
       ~backlog_tasks'[t].is_done /\ backlog_tasks'[t].done_at = NULL

\* C21: done_at tracks is_done: in every state each task has done_at non-null
\* exactly when is_done is true; done_at is stamped when is_done goes from
\* false to true, cleared when is_done becomes false, and left as it is by an
\* update that keeps is_done true or does not mention is_done; a new task is
\* open with done_at NULL.
C21_DoneAtTracksIsDone == []DoneAtConsistent /\ [][DoneAtSteps]_vars

\* Task 1, closed before the run, was updated with is_done = true and with a body
\* without is_done and keeps its earlier stamp, and task 2 was closed and
\* stamped by a request of the run.
C21_Witness ==
  /\ \A r \in TaskReq : /\ req[r].op = "task_update" /\ req[r].status = 200
                        /\ req[r].task.found
  /\ \E r \in TaskReq : req[r].taskId = 1 /\ (~req[r].hasDone \/ req[r].isDone)
  /\ \E r \in TaskReq : req[r].taskId = 2 /\ req[r].hasDone /\ req[r].isDone
  /\ backlog_tasks[1].is_done /\ backlog_tasks[1].done_at = earlier
  /\ backlog_tasks[2].is_done /\ backlog_tasks[2].done_at = now

\* C22: every successful updateTask response contains the task as it is stored
\* (the task is present, it is the task of the request and has the is_done the
\* request set), in every interleaving with other task mutations.  (The
\* progress values of the response are the ones RecalcCommit wrote.)
C22_UpdateResponse ==
  \A r \in Req :
    (req[r].op = "task_update" /\ req[r].pc = "done" /\ req[r].status = 200)
    => /\ req[r].task.found
       /\ req[r].task.id = req[r].taskId
       /\ req[r].hasDone => req[r].task.is_done = req[r].isDone

\* C23: recalcProgress called for a backlog item id that does not exist in the
\* given project fails with NotFound (404 here) rather than returning a
\* progress result (a call that a database fault ended with 500 aside).
C23_RecomputeNotFound ==
  \A r \in Req :
    (/\ req[r].op = "recalc" /\ req[r].pc = "done"
     /\ req[r].status # 500
     /\ ~ItemInProject(req[r].projectId, req[r].backlogItemId))
    => req[r].status = 404

\* C24: every castVote, promote, task mutation and recompute request that has
\* arrived eventually completes (answers with its result or with a failure)
\* under fair scheduling: no interleaving leaves a request waiting for a row
\* lock for ever.
C24_RequestsComplete ==
  \A r \in TaskReq : (req[r].pc \notin {"idle", "done"}) ~> (req[r].pc = "done")

\* A recomputation holds the lock of backlog item 1 and waits for the row of
\* suggestion 1, which a vote on that suggestion holds.
C24_Witness ==
  \E r, o \in TaskReq :
    /\ req[r].pc = "rc_sug" /\ req[r].link = 1 /\ ItemRow(1) \in locks[r]
    /\ req[o].op = "vote" /\ SugRow(1) \in locks[o]
    /\ ~ENABLED RecalcUpdateSuggestion(r)

\* C25: when the item has a linked suggestion, recalcProgress mirrors the
\* status too: a recomputation that stored 100 leaves the suggestion with the
\* status of a finished suggestion ('done' of the CHECK list), not with the
\* status promotion gave it.
C25_StatusMirrored ==
  \A r \in Req :
    (/\ req[r].op = "recalc" /\ req[r].pc = "done" /\ req[r].status = 200
     /\ req[r].link # NULL /\ req[r].progress = 100)
    => suggestions[req[r].link].status = "done"

\* C26: the suggestion/backlog link is mutual in every committed state:
\* suggestion S has backlog_item_id = B exactly when backlog item B exists in
\* the same project with suggestion_id = S and origin 'suggestion'; in
\* particular no item references S while S.backlog_item_id is NULL, also after
\* a promote that failed midway.
C26_MutualLink ==
  \A S \in DOMAIN suggestions :
    \A B \in (DOMAIN backlog_items \cup {suggestions[S].backlog_item_id}) \ {NULL} :
      suggestions[S].backlog_item_id = B
      <=> /\ B \in DOMAIN backlog_items
          /\ backlog_items[B].project_id = suggestions[S].project_id
          /\ backlog_items[B].suggestion_id = S
          /\ backlog_items[B].origin_type = "suggestion"

\* One promotion of suggestion 2 failed midway (500) and another one went
\* through: suggestion 2 and its item reference each other.
C26_Witness ==
  /\ \E r \in TaskReq : /\ req[r].op = "promote" /\ req[r].status = 500
                        /\ req[r].suggestionId = 2
  /\ \E r \in TaskReq : /\ req[r].op = "promote" /\ req[r].status = 201
                        /\ req[r].suggestionId = 2
                        /\ suggestions[2].backlog_item_id = req[r].backlog
                        /\ backlog_items[req[r].backlog].suggestion_id = 2

\* A suggestion is open with progress 0 while it is unpromoted and in progress
\* once it is promoted.
StatusFollowsLink ==
  \A S \in DOMAIN suggestions :
    /\ suggestions[S].backlog_item_id = NULL
       => suggestions[S].status = "open" /\ suggestions[S].progress_percent = 0
    /\ suggestions[S].backlog_item_id # NULL => suggestions[S].status = "in_progress"

\* No step changes the progress_percent of a row it keeps, unless it is the
\* COMMIT of a recalcProgress; a new suggestion and a new backlog item (manual
\* or promoted) start at 0.
ProgressWrittenByRecalcOnly ==
  /\ \A S \in DOMAIN suggestions' :
       IF S \in DOMAIN suggestions
       THEN suggestions'[S].progress_percent # suggestions[S].progress_percent
            => \E r \in Req : req[r].pc = "rc_commit" /\ Step(r)
       ELSE suggestions'[S].progress_percent = 0
  /\ \A B \in DOMAIN backlog_items' :
       IF B \in DOMAIN backlog_items
       THEN backlog_items'[B].progress_percent # backlog_items[B].progress_percent
            => \E r \in Req : req[r].pc = "rc_commit" /\ Step(r)
       ELSE backlog_items'[B].progress_percent = 0

\* C27: in every state reachable through the API a suggestion has status
\* 'open' and progress_percent 0 exactly while its backlog_item_id is NULL and
\* status 'in_progress' once it is set; vote, edit, suggestion creation and
\* manual backlog-item creation never write a progress_percent (promotion
\* creates the item with 0, only recalcProgress changes one).
C27_StatusAndProgress == []StatusFollowsLink /\ [][ProgressWrittenByRecalcOnly]_vars

\* Suggestion 1 was edited by its author and voted on and then promoted: it is
\* in progress at 0 with the new title and a score, like its item.
C27_Witness ==
  /\ 1 \in DOMAIN suggestions /\ suggestions[1].backlog_item_id # NULL
  /\ suggestions[1].status = "in_progress" /\ suggestions[1].progress_percent = 0
  /\ suggestions[1].title = 2 /\ suggestions[1].upvotes_count = 1
  /\ backlog_items[suggestions[1].backlog_item_id].progress_percent = 0
  /\ \E r \in Req : req[r].op = "edit" /\ req[r].status = 200
  /\ \E r \in Req : req[r].op = "vote" /\ req[r].status = 200

\* The rows of suggestion_votes other than the one of voter u on suggestion s.
OtherVotes(votes, s, u) ==
  {i \in DOMAIN votes : ~(votes[i].suggestion_id = s /\ votes[i].user_id = u)}

C29_PromoteRoles ==
  [][\A r \in Req :
       /\ (/\ req[r].pc = "idle" /\ req'[r].op = "promote"
           /\ RoleOf(req'[r].userId) \in {"user", "manager"})
          => /\ req'[r].pc = "done" /\ req'[r].status = 403
             /\ UNCHANGED <<tables, ids, locks, tasks>>
       /\ (req[r].op = "promote" /\ Step(r))
          => RoleOf(req[r].userId) \in {"developer", "admin"}]_vars

\* The manager's promotion of suggestion 2 was answered 403 and the admin's
\* 201: item 2 is the admin's.
C29_Witness ==
  /\ \E r \in TaskReq : req[r].op = "promote" /\ req[r].status = 403 /\ req[r].userId = 4
  /\ \E r \in TaskReq : req[r].op = "promote" /\ req[r].status = 201
  /\ suggestions[2].backlog_item_id # NULL
  /\ isMember(4, 1)

\* C30: a task's stack and its parent backlog item are fixed at creation: no
\* step (in particular no updateTask, by admin or developer, with any body)
\* changes the stack, the backlog_item_id or the project_id of a task.
C30_StackAndParentFixed ==
  [][\A t \in DOMAIN backlog_tasks \cap DOMAIN backlog_tasks' :
       /\ backlog_tasks'[t].stack = backlog_tasks[t].stack
       /\ backlog_tasks'[t].backlog_item_id = backlog_tasks[t].backlog_item_id
       /\ backlog_tasks'[t].project_id = backlog_tasks[t].project_id]_vars

\* The admin closed infra task 3, which is still an infra task of item 1,
\* and developer 1's update of it was answered 403.
C30_Witness ==
  /\ \E r \in TaskReq : /\ req[r].op = "task_update" /\ req[r].status = 200
                        /\ req[r].taskId = 3 /\ req[r].task.found
                        /\ req[r].task.stack = "infra" /\ req[r].task.is_done
  /\ \E r \in TaskReq : req[r].op = "task_update" /\ req[r].status = 403 /\ req[r].userId = 1
  /\ backlog_tasks[3].stack = "infra" /\ backlog_tasks[3].backlog_item_id = 1
  /\ backlog_tasks[3].is_done

====
